---- MODULE Spec2Model ----
(***************************************************************************)
(* ETOS suite runner (etos_suite_runner, projects/ snapshot).              *)
(*                                                                         *)
(* One process drives one testrun: ESR.run() triggers the activity, starts *)
(* the environment requester thread, runs one SuiteRunner.run() per main   *)
(* suite in a thread pool, each of which discovers environments and starts *)
(* one SubSuite thread per environment, and finally releases the           *)
(* environment.  The bus, the environment provider, the test runners and   *)
(* Kubernetes are external: what they answer is a nondeterministic choice  *)
(* at the step that asks them.                                             *)
(***************************************************************************)
EXTENDS Integers, Sequences, FiniteSets, TLC

\* ---------------------------------------------------------------- bounds
MaxSuites == 2          \* main suites in the TERCC
DriverSuites == 1       \* main suites of the runs in which every failure and signal can happen
MaxEnvEvents == 2       \* EnvironmentDefined events the provider publishes in a testrun
MaxDiscoveryPolls == 2  \* 5 s ticks within WAIT_FOR_ENVIRONMENT_TIMEOUT
MaxResultPolls == 2     \* 10 s ticks within default_test_result_timeout
MaxRequesterPolls == 2  \* 5 s ticks of the watch-mode requester
MaxSignals == 1         \* SIGTERM deliveries
MaxResults == 2         \* length of the result list given to main()
MaxTimeout == 12        \* seconds of default_test_result_timeout / WAIT_FOR_ENVIRONMENT_TIMEOUT
MaxDelay == 1           \* seconds a sleep oversleeps or the queries of a tick take
MaxPermutationEnvEvents == 3
MaxCpus == 2   \* EnvironmentDefined events of a testrun with MaxSuites main suites

Suites == 1..MaxSuites
Envs == 1..MaxEnvEvents
Subs == Suites \X Envs

Verdicts == {"PASSED", "FAILED", "INCONCLUSIVE"}
\* Verdicts a test runner reports for a sub suite; results() tells PASSED from the rest.
SubVerdicts == {"PASSED", "FAILED"}
Conclusions == {"SUCCESSFUL", "FAILED", "INCONCLUSIVE"}

\* ------------------------------------------------------------ exceptions
NoExc == [kind |-> "None", msg |-> ""]
Exc(k, m) == [kind |-> k, msg |-> m]

\* Error texts of the environment provider (external input).
ProviderErrors == {"boom"}
WatchSuccessMessage == "Successfully created an environment for test"
ProviderRunFailed == "Failed to run environment provider"
TerminateMessage == "Terminate command received - Shutting down."

NoStatusError == "None"
InitialStatus == [status |-> "NOT_STARTED", error |-> NoStatusError]

\* No loop is being timed.
NoTimer == [loop |-> "none", pc |-> "done", now |-> 0, deadline |-> 0, lastQuery |-> -1]

NoOld == [pc |-> "none", events |-> <<>>, inputOk |-> TRUE, suites |-> 0, cpus |-> 1,
          task |-> FALSE, tpc |-> <<>>, exc |-> "", sig |-> 0, released |-> 0]
NoCall == [pc |-> "none", auth |-> "none", answer |-> [kind |-> "none"], requested |-> FALSE,
           raised |-> "None", error |-> ""]
NoListener == [pc |-> "none", file |-> <<>>, existing |-> 0, log |-> 0, id |-> 0, received |-> <<>>,
               writer |-> "idle", event |-> "", lock |-> "free", reader |-> "idle",
               start |-> 0, end |-> 0, read |-> <<>>, nacked |-> 0]
NoIds == [pc |-> "none", requests |-> <<>>, ids |-> <<>>, suites |-> <<>>, requester |-> <<>>,
          eventId |-> <<>>, links |-> <<>>, returned |-> <<>>, raised |-> "None"]
NoLog == [verdict |-> "", conclusion |-> "", description |-> "", written |-> FALSE]

VARIABLES
    entry,          \* "main": __main__.main(); "direct": ESR() then ESR.run()
    operatorMode,   \* os.getenv("IDENTIFIER") is not None
    nSuites,        \* len(params.test_suite)
    envBudget,      \* EnvironmentDefined events the provider publishes in this testrun
    tests,          \* tests[s]: number of recipes of main suite s
    mpc,            \* position of the main thread
    mexc,           \* exception travelling up the main thread
    sigCount,       \* SIGTERM deliveries so far
    sigAt,          \* where run() stood when SIGTERM was delivered, "none" before
    actTriggered, actStarted, actFinished, actCanceled,   \* published activity events
    cancelReason,   \* reason of the published ActivityCanceled
    returned,       \* value returned by ESR.run(): <<ids>> or <<>> when it has not returned
    fullReleases,   \* invocations of release_full_environment
    fullReleaseErrors,  \* failures of it that _release_environment logged
    envStatus,      \* ESRParameters.environment_status
    statusAtCheck,  \* the get_status() snapshot read by start_suites_and_wait
    rpc, rpolls,    \* requester thread
    spc, sexc,      \* SuiteRunner.run per main suite: position and exception
    firstExc,       \* first exception stored by pool.map
    tss, tsf,       \* published TestSuiteStarted / TestSuiteFinished per main suite
    tsfOutcome,     \* outcome of the published TestSuiteFinished
    empty, started, \* TestSuite.empty, TestSuite.started
    dpolls,         \* ticks used by the running discovery loop (0 when none runs)
    atCache, afCache,   \* TestSuite.__activity_triggered / __activity_finished
    seen,           \* the generator's `environments` list (yielded event ids)
    pending,        \* events of the current poll not yet yielded
    noDef,          \* yielded events for which no SubSuite was constructed
    subSeq,         \* TestSuite.sub_suites, in construction order
    wpc, wpolls,    \* SubSuite thread: position and ticks used by its running result loop
    ssStarted,      \* SubSuite.test_suite_started is cached
    ssOutcome,      \* verdict of the cached TestSuiteFinished, "None" when not finished
    failed, released,   \* SubSuite.failed, SubSuite.released
    relCalls,       \* SubSuite.release invocations
    results,        \* etos.config "results"
    responses,      \* what the provider answers to the status requests (older snapshot)
    termlog,        \* /dev/termination-log
    timer,          \* one poll loop against the clock: its position, time.time(), deadline
    old,            \* ESR.run / SuiteRunner of the older snapshot: positions and published events
    execCall,       \* one Executor.run_tests call: its request, the answer, what it raised
    listener,       \* the log listener: its event file, its id counter, its threads
    idState         \* run_suites: the main suite ids and where each one was used

mainVars == <<mpc, mexc, actTriggered, actStarted, actFinished, actCanceled,
              cancelReason, returned, fullReleases, fullReleaseErrors, statusAtCheck, termlog>>
sigVars == <<sigCount, sigAt>>
inputVars == <<entry, operatorMode, nSuites, envBudget, tests, results, responses, timer, old,
              execCall, listener, idState>>
reqVars == <<rpc, rpolls, envStatus>>
suiteVars == <<spc, sexc, firstExc, tss, tsf, tsfOutcome, empty, started, dpolls,
               atCache, afCache, seen, pending, noDef, subSeq>>
subVars == <<wpc, wpolls, ssStarted, ssOutcome, failed, released, relCalls>>
vars == <<inputVars, mainVars, sigVars, reqVars, suiteVars, subVars>>

ActiveSuites == 1..nSuites

\* ------------------------------------------------------------------ Init
IdleState ==
    /\ sigCount = 0 /\ sigAt = "none"
    /\ actTriggered = 0 /\ actStarted = 0 /\ actFinished = 0 /\ actCanceled = 0
    /\ cancelReason = "" /\ returned = <<>> /\ fullReleases = 0 /\ fullReleaseErrors = 0
    /\ envStatus = InitialStatus /\ statusAtCheck = InitialStatus
    /\ rpolls = 0
    /\ spc = [s \in Suites |-> "idle"] /\ sexc = [s \in Suites |-> NoExc]
    /\ firstExc = NoExc
    /\ tss = [s \in Suites |-> 0] /\ tsf = [s \in Suites |-> 0]
    /\ tsfOutcome = [s \in Suites |-> NoLog]
    /\ empty = [s \in Suites |-> FALSE] /\ started = [s \in Suites |-> FALSE]
    /\ dpolls = [s \in Suites |-> 0]
    /\ atCache = [s \in Suites |-> FALSE] /\ afCache = [s \in Suites |-> "None"]
    /\ seen = [s \in Suites |-> {}] /\ pending = [s \in Suites |-> {}]
    /\ noDef = [s \in Suites |-> {}]
    /\ subSeq = [s \in Suites |-> <<>>]
    /\ wpc = [x \in Subs |-> "none"] /\ wpolls = [x \in Subs |-> 0]
    /\ ssStarted = [x \in Subs |-> FALSE] /\ ssOutcome = [x \in Subs |-> "None"]
    /\ failed = [x \in Subs |-> FALSE] /\ released = [x \in Subs |-> FALSE]
    /\ relCalls = [x \in Subs |-> 0]
    /\ termlog = NoLog

Init ==
    /\ entry \in {"main", "direct"}
    /\ operatorMode \in BOOLEAN
    /\ nSuites \in 1..DriverSuites
    /\ envBudget \in 0..MaxEnvEvents
    /\ tests \in [Suites -> 0..1]
    /\ \A s \in Suites : s > nSuites => tests[s] = 1
    /\ results = <<>>
    /\ responses = <<>>
    /\ timer = NoTimer
    /\ old = NoOld
    /\ execCall = NoCall /\ listener = NoListener /\ idState = NoIds
    /\ mpc = "boot" /\ mexc = NoExc
    /\ rpc = "none"
    /\ IdleState

\* ------------------------------------------------- main thread: main()
\* __main__.main passes `etos` to ESR(); ESR.__init__(self) takes no parameter.
MainCtorArgs == 1
ESRInitParams == 0

\* main(), lines 34-36: the constructor call stands before the try statement, so
\* the TypeError it raises leaves main() without writing the termination-log.
MainConstruct ==
    /\ entry = "main" /\ mpc = "boot"
    /\ IF MainCtorArgs = ESRInitParams
         THEN mpc' = "constructed" /\ mexc' = mexc
         ELSE mpc' = "crashed" /\ mexc' = Exc("TypeError", "ESR.__init__() takes 1 positional argument")
    /\ UNCHANGED <<inputVars, actTriggered, actStarted, actFinished, actCanceled,
                   cancelReason, returned, fullReleases, fullReleaseErrors, statusAtCheck, termlog,
                   sigVars, reqVars, suiteVars, subVars>>

\* ESR(), as the scenario tests construct it: parameters, publisher and
\* int(os.getenv("ESR_WAIT_FOR_ENVIRONMENT_TIMEOUT")) may raise.
ESRInit ==
    /\ entry = "direct" /\ mpc = "boot"
    /\ \E ok \in BOOLEAN :
         IF ok THEN mpc' = "constructed" /\ mexc' = mexc
               ELSE mpc' = "ctor_raised" /\ mexc' = Exc("TypeError", "constructor")
    /\ UNCHANGED <<inputVars, actTriggered, actStarted, actFinished, actCanceled,
                   cancelReason, returned, fullReleases, fullReleaseErrors, statusAtCheck, termlog,
                   sigVars, reqVars, suiteVars, subVars>>

\* ------------------------------------------------- main thread: ESR.run
\* run(), first try block up to send_activity_triggered.
RunStartup ==
    /\ mpc = "constructed"
    /\ \E ok \in BOOLEAN :
         IF ok THEN /\ actTriggered' = actTriggered + 1
                    /\ mpc' = "verify" /\ mexc' = mexc
               ELSE /\ actTriggered' = actTriggered
                    /\ mpc' = "raised" /\ mexc' = Exc("StartupError", "startup")
    /\ UNCHANGED <<inputVars, actStarted, actFinished, actCanceled, cancelReason,
                   returned, fullReleases, fullReleaseErrors, statusAtCheck, termlog,
                   sigVars, reqVars, suiteVars, subVars>>

\* run(), verify_input(): an AssertionError leaves through `except: raise`.
RunVerifyInput ==
    /\ mpc = "verify"
    /\ \E ok \in BOOLEAN :
         IF ok THEN mpc' = "rs_setup" /\ mexc' = mexc
               ELSE mpc' = "raised" /\ mexc' = Exc("AssertionError", "environment variable not provided.")
    /\ UNCHANGED <<inputVars, actTriggered, actStarted, actFinished, actCanceled,
                   cancelReason, returned, fullReleases, fullReleaseErrors, statusAtCheck, termlog,
                   sigVars, reqVars, suiteVars, subVars>>

\* run_suites(), lines 210-218: runner, main_suite_ids(), suites; not inside its try.
RunSuitesSetup ==
    /\ mpc = "rs_setup"
    /\ \E ok \in BOOLEAN :
         IF ok THEN mpc' = "rs_spawn" /\ mexc' = mexc
               ELSE mpc' = "cancel" /\ mexc' = Exc("SetupError", "suite setup")
    /\ UNCHANGED <<inputVars, actTriggered, actStarted, actFinished, actCanceled,
                   cancelReason, returned, fullReleases, fullReleaseErrors, statusAtCheck, termlog,
                   sigVars, reqVars, suiteVars, subVars>>

\* run_suites(), lines 223-230: the requester thread is started.
SpawnRequester ==
    /\ mpc = "rs_spawn"
    /\ mpc' = "rs_started"
    /\ rpc' = "run"
    /\ UNCHANGED <<inputVars, mexc, actTriggered, actStarted, actFinished, actCanceled,
                   cancelReason, returned, fullReleases, fullReleaseErrors, statusAtCheck, termlog,
                   sigVars, rpolls, envStatus, suiteVars, subVars>>

\* run_suites(), line 232.
SendActivityStarted ==
    /\ mpc = "rs_started"
    /\ actStarted' = actStarted + 1
    /\ mpc' = "enter_pool"
    /\ UNCHANGED <<inputVars, mexc, actTriggered, actFinished, actCanceled,
                   cancelReason, returned, fullReleases, fullReleaseErrors, statusAtCheck, termlog,
                   sigVars, reqVars, suiteVars, subVars>>

\* start_suites_and_wait(), lines 73-86: the TestSuites are handed to pool.map.
StartSuitesAndWait ==
    /\ mpc = "enter_pool"
    /\ mpc' = "pool_wait"
    /\ spc' = [s \in Suites |-> IF s \in ActiveSuites THEN "start" ELSE spc[s]]
    /\ UNCHANGED <<inputVars, mexc, actTriggered, actStarted, actFinished, actCanceled,
                   cancelReason, returned, fullReleases, fullReleaseErrors, statusAtCheck, termlog,
                   sigVars, reqVars, sexc, firstExc, tss, tsf, tsfOutcome, empty,
                   started, dpolls, atCache, afCache, seen, pending, noDef, subSeq,
                   subVars>>

\* start_suites_and_wait(), lines 86-91: pool.map returns when every task is done and
\* re-raises the first stored exception; otherwise the status is read and an error
\* in it is raised as EnvironmentProviderException.
StatusException(status) ==
    IF status.error # NoStatusError
      THEN Exc("EnvironmentProviderException", status.error)
      ELSE NoExc

PoolMapDone ==
    /\ mpc = "pool_wait"
    /\ \A s \in ActiveSuites : spc[s] = "done"
    /\ IF firstExc # NoExc
         THEN mexc' = firstExc /\ statusAtCheck' = statusAtCheck
         ELSE mexc' = StatusException(envStatus) /\ statusAtCheck' = envStatus
    /\ mpc' = "finally_release"
    /\ UNCHANGED <<inputVars, actTriggered, actStarted, actFinished, actCanceled,
                   cancelReason, returned, fullReleases, fullReleaseErrors, termlog,
                   sigVars, reqVars, suiteVars, subVars>>

\* A _release_environment that raises when the release reports a failure.
AfterReleaseRaising(exc, status) ==
    IF status THEN exc ELSE Exc("ReleaseError", "failed to release")

\* _release_environment (runner.py 66-70, esr.py 194-200) and SubSuite.release
\* (suite.py 203-207): a release that reports a failure is logged and the method
\* returns; the exception in flight stays what it was.
AfterRelease(exc, status) == exc

\* logger.error(message) of _release_environment, counted.
LoggedErrors(n, status) == IF status THEN n ELSE n + 1

\* Where the exception of start_suites_and_wait goes after its finally clause:
\* run_suites catches EnvironmentProviderException only, run() everything else.
AfterFinally(exc) ==
    IF exc.kind = "None" THEN "act_finished"
    ELSE IF exc.kind = "EnvironmentProviderException" THEN "except_release"
    ELSE "cancel"

\* start_suites_and_wait(), lines 92-94: finally: self._release_environment().
FinallyRelease ==
    /\ mpc = "finally_release"
    /\ fullReleases' = fullReleases + 1
    /\ \E status \in BOOLEAN :
         /\ fullReleaseErrors' = LoggedErrors(fullReleaseErrors, status)
         /\ mexc' = AfterRelease(mexc, status)
    /\ mpc' = AfterFinally(mexc')
    /\ UNCHANGED <<inputVars, actTriggered, actStarted, actFinished, actCanceled,
                   cancelReason, returned, statusAtCheck, termlog,
                   sigVars, reqVars, suiteVars, subVars>>

\* run_suites(), lines 237-241: except EnvironmentProviderException: release, raise.
ExceptRelease ==
    /\ mpc = "except_release"
    /\ fullReleases' = fullReleases + 1
    /\ \E status \in BOOLEAN :
         /\ fullReleaseErrors' = LoggedErrors(fullReleaseErrors, status)
         /\ mexc' = AfterRelease(mexc, status)
    /\ mpc' = "cancel"
    /\ UNCHANGED <<inputVars, actTriggered, actStarted, actFinished, actCanceled,
                   cancelReason, returned, statusAtCheck, termlog,
                   sigVars, reqVars, suiteVars, subVars>>

\* run(), lines 299-301.
SendActivityFinished ==
    /\ mpc = "act_finished"
    /\ actFinished' = actFinished + 1
    /\ mpc' = "return_ids"
    /\ UNCHANGED <<inputVars, mexc, actTriggered, actStarted, actCanceled,
                   cancelReason, returned, fullReleases, fullReleaseErrors, statusAtCheck, termlog,
                   sigVars, reqVars, suiteVars, subVars>>

\* A run_suites() that returns the id of the first main suite only.
SuiteIdsFirstOnly == [i \in 1..1 |-> i]

\* run(), line 302, with run_suites line 236: the main suite ids, in suite order.
SuiteIds == [i \in ActiveSuites |-> i]

ReturnIds ==
    /\ mpc = "return_ids"
    /\ returned' = SuiteIds
    /\ mpc' = "returned"
    /\ UNCHANGED <<inputVars, mexc, actTriggered, actStarted, actFinished, actCanceled,
                   cancelReason, fullReleases, fullReleaseErrors, statusAtCheck, termlog,
                   sigVars, reqVars, suiteVars, subVars>>

\* run(), lines 303-311: except Exception: send_activity_canceled(reason), raise.
SendActivityCanceled ==
    /\ mpc = "cancel"
    /\ actCanceled' = actCanceled + 1
    /\ cancelReason' = mexc.msg
    /\ mpc' = "raised"
    /\ UNCHANGED <<inputVars, mexc, actTriggered, actStarted, actFinished,
                   returned, fullReleases, fullReleaseErrors, statusAtCheck, termlog,
                   sigVars, reqVars, suiteVars, subVars>>

\* Where a RuntimeError raised at position pc takes the main thread: out of run()
\* from its first try statement and from its except clause, into the finally
\* clause of start_suites_and_wait once its try statement is entered, and into
\* the except clause of run() otherwise.
SignalTargets(pc) ==
    IF pc \in {"constructed", "verify", "cancel"} THEN {"raised"}
    ELSE IF pc = "enter_pool" THEN {"cancel", "finally_release"}
    ELSE IF pc = "pool_wait" THEN {"finally_release"}
    ELSE {"cancel"}

SignalPcs == {"constructed", "verify", "rs_setup", "rs_spawn", "rs_started",
              "enter_pool", "pool_wait", "finally_release", "except_release",
              "act_finished", "return_ids", "cancel"}

\* graceful_exit(): the SIGTERM handler raises RuntimeError in the main thread,
\* wherever run() stands; the threads of the pool and the requester run on.
GracefulExit ==
    /\ sigCount < MaxSignals
    /\ mpc \in SignalPcs
    /\ sigCount' = sigCount + 1
    /\ sigAt' = mpc
    /\ mexc' = Exc("RuntimeError", TerminateMessage)
    /\ mpc' \in SignalTargets(mpc)
    /\ UNCHANGED <<inputVars, actTriggered, actStarted, actFinished, actCanceled,
                   cancelReason, returned, fullReleases, fullReleaseErrors, statusAtCheck, termlog,
                   reqVars, suiteVars, subVars>>

MainTerminated == mpc \in {"crashed", "ctor_raised", "returned", "raised"}

\* ------------------------------------------------------ requester thread
\* ESRParameters.set_status: both fields are overwritten under the lock.
SetStatus(status, error) == [status |-> status, error |-> error]

\* ESR.__request_environment (direct mode): provider.run() raises, returns an
\* error, or returns without one; result.get("error") is then None.
RequestEnvironment ==
    /\ rpc = "run" /\ ~operatorMode
    /\ \E outcome \in {"raise", "error", "ok"} :
         \E err \in ProviderErrors :
           envStatus' = CASE outcome = "raise" -> SetStatus("FAILURE", ProviderRunFailed)
                          [] outcome = "error" -> SetStatus("FAILURE", err)
                          [] OTHER -> SetStatus("SUCCESS", NoStatusError)
    /\ rpc' = "done"
    /\ UNCHANGED <<inputVars, mainVars, sigVars, rpolls, suiteVars, subVars>>

\* The Ready condition of one EnvironmentRequest, as the watch loop reads it:
\* no Ready condition; status false with reason failed; status false with reason
\* done; a Ready condition with any other status or reason.
CondKinds == {"none", "failed", "done", "other"}

WatchFound(conds) == \E r \in DOMAIN conds : conds[r] # "none"
WatchFailed(conds) == {r \in DOMAIN conds : conds[r] = "failed"}
WatchSuccess(conds) == {r \in DOMAIN conds : conds[r] = "done"}

\* What one tick of the watch loop writes: "FAILURE", "SUCCESS" or "" (no write).
WatchDecision(conds) ==
    IF WatchFound(conds) /\ Cardinality(WatchFailed(conds)) > 0 THEN "FAILURE"
    ELSE IF WatchFound(conds) /\ Cardinality(WatchSuccess(conds)) = Cardinality(DOMAIN conds)
      THEN "SUCCESS"
    ELSE ""

\* ESR.__environment_request_status (watch mode), one iteration: sleep, read the
\* requests, break after the first set_status.  The message of a failed condition
\* is what the request carries, or None.
EnvironmentRequestStatus ==
    /\ rpc = "run" /\ operatorMode
    /\ rpolls < MaxRequesterPolls
    /\ \E conds \in [ActiveSuites -> CondKinds], err \in ProviderErrors \cup {NoStatusError} :
         LET d == WatchDecision(conds) IN
           /\ envStatus' = CASE d = "FAILURE" -> SetStatus("FAILURE", err)
                             [] d = "SUCCESS" -> SetStatus("SUCCESS", WatchSuccessMessage)
                             [] OTHER -> envStatus
           /\ rpc' = IF d = "" THEN "run" ELSE "done"
           /\ rpolls' = IF d = "" THEN rpolls + 1 ELSE 0
    /\ UNCHANGED <<inputVars, mainVars, sigVars, suiteVars, subVars>>

\* ESR.__environment_request_status: the while condition fails; nothing is written.
EnvironmentRequestTimeout ==
    /\ rpc = "run" /\ operatorMode
    /\ rpolls >= MaxRequesterPolls
    /\ rpc' = "done"
    /\ rpolls' = 0
    /\ UNCHANGED <<inputVars, mainVars, sigVars, envStatus, suiteVars, subVars>>

\* ------------------------------------------------- TestSuite (main suite)
Min(S) == CHOOSE x \in S : \A y \in S : x <= y
SeqRange(q) == {q[i] : i \in DOMAIN q}

\* Outcome description of the TestSuiteFinished of sub suite e (text of the ETR).
SubDescription(e) == "description of sub suite " \o ToString(e)

\* SubSuite.finished and TestSuite.all_finished.
Finished(x) == ssOutcome[x] # "None"
AllFinished(s) == \A i \in DOMAIN subSeq[s] : Finished(<<s, subSeq[s][i]>>)

\* The loop of results(), lines 500-503, over sub_suites[1..n]: the verdict turns
\* FAILED at a sub suite that did not pass, the description is overwritten by
\* every sub suite.
RECURSIVE OutcomeLoop(_, _)
OutcomeLoop(s, n) ==
    IF n = 0 THEN [verdict |-> "INCONCLUSIVE", description |-> ""]
    ELSE LET prev == OutcomeLoop(s, n - 1)
             e == subSeq[s][n]
         IN [verdict |-> IF ssOutcome[<<s, e>>] # "PASSED" THEN "FAILED" ELSE prev.verdict,
             description |-> SubDescription(e)]

Outcome(v, c, d) == [verdict |-> v, conclusion |-> c, description |-> d, written |-> TRUE]

\* TestSuite.results(), lines 476-511, with the condition of its second branch.
ResultRows(s, secondRow) ==
    LET nFailed == Cardinality({i \in DOMAIN subSeq[s] : failed[<<s, subSeq[s][i]>>]})
        loop == OutcomeLoop(s, Len(subSeq[s]))
    IN IF empty[s]
         THEN Outcome("INCONCLUSIVE", "FAILED", "No tests in test suite, aborting test run")
       ELSE IF secondRow
         THEN Outcome("INCONCLUSIVE", "FAILED",
                      "No sub suites started at all for " \o ToString(s) \o ".")
       ELSE IF nFailed > 0
         THEN Outcome("INCONCLUSIVE", "FAILED", ToString(nFailed) \o " sub suites failed to start")
       ELSE IF ~AllFinished(s)
         THEN Outcome("INCONCLUSIVE", "FAILED", "Did not receive test results from sub suites.")
       ELSE IF loop.verdict = "INCONCLUSIVE"
         THEN Outcome("PASSED", "SUCCESSFUL", "All tests passed.")
       ELSE Outcome(loop.verdict, "SUCCESSFUL",
                    IF loop.description = ""
                      THEN "No description received from ESR or ETR."
                      ELSE loop.description)

\* A results() whose second branch asks whether any sub suite was started.
ResultsByStartedSubSuites(s) ==
    ResultRows(s, \A i \in DOMAIN subSeq[s] : ~ssStarted[<<s, subSeq[s][i]>>])

\* TestSuite.results(): the second branch is `elif not self.started`, the flag
\* _start sets once the loop over sub_suite_environments has ended (line 419).
Results(s) == ResultRows(s, ~started[s])

\* A results() that never dereferences test_suite_started.
ResultsNeverRaises(s) == FALSE

\* results() reads self.test_suite_started.meta.event_id (lines 489, 515): with no
\* TestSuiteStarted event object it raises AttributeError.
ResultsRaises(s) == tss[s] = 0

\* The task of the pool ends; pool.map keeps the first exception only.
FirstException(exc) == IF firstExc = NoExc THEN exc ELSE firstExc

\* A _start that does not look at the number of recipes.
NoRecipesIgnored(s) == FALSE

\* TestSuite._start, line 372: len(self.suite.tests) == 0.
NoRecipes(s) == tests[s] = 0

\* TestSuite._start, lines 370-375: send TestSuiteStarted (params.product may
\* raise before the event is sent); a suite without tests is marked empty.
SuiteStart(s) ==
    /\ spc[s] = "start"
    /\ \E sent \in BOOLEAN :
         IF sent
           THEN /\ tss' = [tss EXCEPT ![s] = 1]
                /\ empty' = [empty EXCEPT ![s] = NoRecipes(s)]
                /\ spc' = [spc EXCEPT ![s] = IF NoRecipes(s) THEN "finish" ELSE "discover"]
                /\ sexc' = sexc
           ELSE /\ spc' = [spc EXCEPT ![s] = "finish"]
                /\ sexc' = [sexc EXCEPT ![s] = Exc("ValueError", "product")]
                /\ UNCHANGED <<tss, empty>>
    /\ UNCHANGED <<inputVars, mainVars, sigVars, reqVars, firstExc, tsf, tsfOutcome,
                   started, dpolls, atCache, afCache, seen, pending, noDef, subSeq,
                   subVars>>

\* A loop that does not look at the conclusion of the provider's ActivityFinished.
AfterPollAnyConclusion(af, yielded) ==
    IF af # "None" /\ yielded # {} THEN "return" ELSE "continue"

\* sub_suite_environments, lines 287-296, after the events of a poll were yielded:
\* a provider activity that did not finish SUCCESSFUL raises, a finished one with
\* at least one environment ends the generator, anything else polls again.
AfterPoll(af, yielded) ==
    IF af # "None" /\ af # "SUCCESSFUL" THEN "raise"
    ELSE IF af = "SUCCESSFUL" /\ yielded # {} THEN "return"
    ELSE "continue"

ProviderActivityDescription == "environment provider activity failed"

\* The suite thread after the generator step `step`: _start sets started when the
\* loop over the generator ends, and joins its threads in the finally clause.
SuiteAfterPoll(s, step) ==
    /\ spc' = [spc EXCEPT ![s] = IF step = "continue" THEN "discover" ELSE "join"]
    /\ started' = [started EXCEPT ![s] = (step = "return")]
    /\ sexc' = [sexc EXCEPT ![s] =
                  IF step = "raise"
                    THEN Exc("EnvironmentProviderException", ProviderActivityDescription)
                    ELSE sexc[s]]

\* The EnvironmentDefined events a poll can return beyond those already yielded.
\* An event is numbered by the order in which its suite first sees it.
TotalSeen == Cardinality({x \in Subs : x[2] \in seen[x[1]]})
NewEvents(s) ==
    {(Cardinality(seen[s]) + 1)..(Cardinality(seen[s]) + k) :
        k \in 0..Min({envBudget - TotalSeen, MaxEnvEvents - Cardinality(seen[s])})}

\* A loop that yields every event a poll returns.
YieldedEveryPoll(s, events) == events

\* sub_suite_environments, lines 281-286: a poll returns the events yielded so far
\* and the new ones; those whose id is not in `environments` are yielded.
NotYetYielded(s, events) == events \ seen[s]

\* sub_suite_environments, one iteration (lines 264-286): sleep, look up the
\* provider's ActivityTriggered (cached once found); without it a FAILURE status
\* raises; with it look up ActivityFinished (cached once found) and the
\* EnvironmentDefined events, of which the new ones are yielded one by one.
Discover(s) ==
    /\ spc[s] = "discover"
    /\ dpolls[s] < MaxDiscoveryPolls
    /\ \E at \in IF atCache[s] THEN {TRUE} ELSE BOOLEAN :
         /\ atCache' = [atCache EXCEPT ![s] = at]
         /\ IF ~at
              THEN /\ IF envStatus.status = "FAILURE"
                        THEN /\ spc' = [spc EXCEPT ![s] = "join"]
                             /\ sexc' = [sexc EXCEPT ![s] =
                                           Exc("EnvironmentProviderException", envStatus.error)]
                        ELSE UNCHANGED <<spc, sexc>>
                   /\ UNCHANGED <<afCache, pending, started>>
              ELSE \E af \in IF afCache[s] # "None" THEN {afCache[s]}
                                                     ELSE {"None", "SUCCESSFUL", "FAILED"},
                      new \in NewEvents(s) :
                     /\ afCache' = [afCache EXCEPT ![s] = af]
                     /\ pending' = [pending EXCEPT ![s] = NotYetYielded(s, seen[s] \cup new)]
                     /\ IF pending'[s] # {}
                          THEN /\ spc' = [spc EXCEPT ![s] = "yield"]
                               /\ UNCHANGED <<sexc, started>>
                          ELSE SuiteAfterPoll(s, AfterPoll(af, seen[s]))
    /\ dpolls' = [dpolls EXCEPT ![s] = IF spc'[s] = "join" THEN 0 ELSE dpolls[s] + 1]
    /\ UNCHANGED <<inputVars, mainVars, sigVars, reqVars, firstExc, tss, tsf,
                   tsfOutcome, empty, seen, noDef, subSeq, subVars>>

\* sub_suite_environments, lines 297-302: the while condition fails.
DiscoverTimeout(s) ==
    /\ spc[s] = "discover"
    /\ dpolls[s] >= MaxDiscoveryPolls
    /\ spc' = [spc EXCEPT ![s] = "join"]
    /\ sexc' = [sexc EXCEPT ![s] = Exc("TimeoutError", "Timed out")]
    /\ dpolls' = [dpolls EXCEPT ![s] = 0]
    /\ UNCHANGED <<inputVars, mainVars, sigVars, reqVars, firstExc, tss, tsf,
                   tsfOutcome, empty, started, atCache, afCache, seen,
                   pending, noDef, subSeq, subVars>>

\* One yielded environment and the loop body of _start, lines 386-405: download
\* the sub suite definition (no uri: EnvironmentProviderException; HTTP error:
\* raised by raise_for_status), construct the SubSuite and start its thread.
Yield(s) ==
    /\ spc[s] = "yield"
    /\ LET e == Min(pending[s])
           rest == pending[s] \ {e}
       IN /\ seen' = [seen EXCEPT ![s] = seen[s] \cup {e}]
          /\ \E download \in {"ok", "nouri", "httperror"} :
               IF download = "ok"
                 THEN /\ subSeq' = [subSeq EXCEPT ![s] = Append(subSeq[s], e)]
                      /\ wpc' = [wpc EXCEPT ![<<s, e>>] = "exec"]
                      /\ pending' = [pending EXCEPT ![s] = rest]
                      /\ noDef' = noDef
                      /\ IF rest # {}
                           THEN UNCHANGED <<spc, sexc, started>>
                           ELSE SuiteAfterPoll(s, AfterPoll(afCache[s], seen[s] \cup {e}))
                 ELSE /\ noDef' = [noDef EXCEPT ![s] = noDef[s] \cup {e}]
                      /\ pending' = [pending EXCEPT ![s] = {}]
                      /\ spc' = [spc EXCEPT ![s] = "join"]
                      /\ sexc' = [sexc EXCEPT ![s] =
                                    IF download = "nouri"
                                      THEN Exc("EnvironmentProviderException", "URL to sub suite is missing")
                                      ELSE Exc("HTTPError", "download")]
                      /\ UNCHANGED <<subSeq, wpc, started>>
    /\ dpolls' = [dpolls EXCEPT ![s] = IF spc'[s] = "join" THEN 0 ELSE dpolls[s]]
    /\ UNCHANGED <<inputVars, mainVars, sigVars, reqVars, firstExc, tss, tsf,
                   tsfOutcome, empty, atCache, afCache,
                   wpolls, ssStarted, ssOutcome, failed, released, relCalls>>

\* A _start that leaves its finally clause without waiting for the threads.
JoinWithoutWaiting(s) ==
    /\ spc[s] = "join"
    /\ spc' = [spc EXCEPT ![s] = "finish"]
    /\ UNCHANGED <<inputVars, mainVars, sigVars, reqVars, sexc, firstExc, tss, tsf,
                   tsfOutcome, empty, started, dpolls, atCache, afCache, seen,
                   pending, noDef, subSeq, subVars>>

\* TestSuite._start, lines 420-422: finally: join every started thread.
Join(s) ==
    /\ spc[s] = "join"
    /\ \A i \in DOMAIN subSeq[s] : wpc[<<s, subSeq[s][i]>>] = "dead"
    /\ spc' = [spc EXCEPT ![s] = "finish"]
    /\ UNCHANGED <<inputVars, mainVars, sigVars, reqVars, sexc, firstExc, tss, tsf,
                   tsfOutcome, empty, started, dpolls, atCache, afCache, seen,
                   pending, noDef, subSeq, subVars>>

\* SuiteRunner.run, lines 106-108: finally: results(), finish(*results).
Finish(s) ==
    /\ spc[s] = "finish"
    /\ IF ResultsRaises(s)
         THEN /\ spc' = [spc EXCEPT ![s] = "done"]
              /\ sexc' = [sexc EXCEPT ![s] = Exc("AttributeError", "NoneType")]
              /\ firstExc' = FirstException(Exc("AttributeError", "NoneType"))
              /\ UNCHANGED <<tsf, tsfOutcome>>
         ELSE /\ tsf' = [tsf EXCEPT ![s] = tsf[s] + 1]
              /\ tsfOutcome' = [tsfOutcome EXCEPT ![s] = Results(s)]
              /\ spc' = [spc EXCEPT ![s] = "release_all"]
              /\ UNCHANGED <<sexc, firstExc>>
    /\ UNCHANGED <<inputVars, mainVars, sigVars, reqVars, tss, empty, started,
                   dpolls, atCache, afCache, seen, pending, noDef, subSeq, subVars>>

\* ------------------------------------------------------ SubSuite threads
\* SubSuite.release, lines 192-209: the flag is set only when the check-in succeeded.
ReleasedAfter(was, success) == IF success THEN TRUE ELSE was

\* A release_all that passes over the sub suites that never reported a result.
ToReleaseFinishedOnly(s) == {e \in SeqRange(subSeq[s]) : ~released[<<s, e>>] /\ Finished(<<s, e>>)}

\* A release_all that calls release() for every sub suite, released or not.
ToReleaseEvery(s) == SeqRange(subSeq[s])

\* TestSuite.release_all, lines 448-450: the sub suites it calls release() for.
ToRelease(s) == {e \in SeqRange(subSeq[s]) : ~released[<<s, e>>]}

\* SuiteRunner.run, line 109: release_all(), then the task of the pool ends.
ReleaseAll(s) ==
    /\ spc[s] = "release_all"
    /\ \E ok \in SUBSET ToRelease(s) :
         /\ released' = [x \in Subs |->
                           IF x[1] = s /\ x[2] \in ToRelease(s)
                             THEN ReleasedAfter(released[x], x[2] \in ok)
                             ELSE released[x]]
         /\ relCalls' = [x \in Subs |->
                           IF x[1] = s /\ x[2] \in ToRelease(s)
                             THEN relCalls[x] + 1
                             ELSE relCalls[x]]
         /\ sexc' = [sexc EXCEPT ![s] = AfterRelease(sexc[s], ok = ToRelease(s))]
    /\ spc' = [spc EXCEPT ![s] = "done"]
    /\ firstExc' = FirstException(sexc'[s])
    /\ UNCHANGED <<inputVars, mainVars, sigVars, reqVars, tss, tsf, tsfOutcome,
                   empty, started, dpolls, atCache, afCache, seen, pending, noDef,
                   subSeq, wpc, wpolls, ssStarted, ssOutcome, failed>>

\* A worker that runs its own release when the executor call fails, and returns.
RunTestsReleasing(x) ==
    /\ wpc[x] = "exec"
    /\ \E ok \in BOOLEAN, success \in BOOLEAN :
         /\ wpc' = [wpc EXCEPT ![x] = IF ok THEN "poll" ELSE "dead"]
         /\ failed' = [failed EXCEPT ![x] = ~ok]
         /\ released' = [released EXCEPT ![x] = IF ok THEN released[x] ELSE success]
         /\ relCalls' = [relCalls EXCEPT ![x] = IF ok THEN relCalls[x] ELSE relCalls[x] + 1]
    /\ UNCHANGED <<inputVars, mainVars, sigVars, reqVars, suiteVars,
                   wpolls, ssStarted, ssOutcome>>

\* SubSuite._start, lines 118-128: executor.run_tests; TestStartException sets
\* failed and is re-raised, which ends the thread.
RunTests(x) ==
    /\ wpc[x] = "exec"
    /\ \E ok \in BOOLEAN :
         /\ wpc' = [wpc EXCEPT ![x] = IF ok THEN "poll" ELSE "dead"]
         /\ failed' = [failed EXCEPT ![x] = ~ok]
    /\ UNCHANGED <<inputVars, mainVars, sigVars, reqVars, suiteVars,
                   wpolls, ssStarted, ssOutcome, released, relCalls>>

\* A result loop that asks for the finished event without looking at `started`.
PollResultWithoutStarted(x) ==
    /\ wpc[x] = "poll"
    /\ wpolls[x] < MaxResultPolls
    /\ \E v \in SubVerdicts \cup {"None"} :
         /\ ssOutcome' = [ssOutcome EXCEPT ![x] = v]
         /\ wpc' = [wpc EXCEPT ![x] = IF v # "None" THEN "release" ELSE "poll"]
    /\ wpolls' = [wpolls EXCEPT ![x] = IF wpc'[x] = "poll" THEN wpolls[x] + 1 ELSE 0]
    /\ UNCHANGED <<inputVars, mainVars, sigVars, reqVars, suiteVars,
                   ssStarted, failed, released, relCalls>>

\* SubSuite._start, lines 131-139, one iteration: sleep, `started` (cached once a
\* TestSuiteStarted with the name was found), then request_finished_event.
PollResult(x) ==
    /\ wpc[x] = "poll"
    /\ wpolls[x] < MaxResultPolls
    /\ \E st \in IF ssStarted[x] THEN {TRUE} ELSE BOOLEAN :
         /\ ssStarted' = [ssStarted EXCEPT ![x] = st]
         /\ IF st
              THEN \E v \in SubVerdicts \cup {"None"} :
                     /\ ssOutcome' = [ssOutcome EXCEPT ![x] = v]
                     /\ wpc' = [wpc EXCEPT ![x] = IF v # "None" THEN "release" ELSE "poll"]
              ELSE UNCHANGED <<ssOutcome, wpc>>
    /\ wpolls' = [wpolls EXCEPT ![x] = IF wpc'[x] = "poll" THEN wpolls[x] + 1 ELSE 0]
    /\ UNCHANGED <<inputVars, mainVars, sigVars, reqVars, suiteVars,
                   failed, released, relCalls>>

\* SubSuite._start: the while condition fails (default_test_result_timeout).
PollTimeout(x) ==
    /\ wpc[x] = "poll"
    /\ wpolls[x] >= MaxResultPolls
    /\ wpc' = [wpc EXCEPT ![x] = "release"]
    /\ wpolls' = [wpolls EXCEPT ![x] = 0]
    /\ UNCHANGED <<inputVars, mainVars, sigVars, reqVars, suiteVars,
                   ssStarted, ssOutcome, failed, released, relCalls>>

\* SubSuite._start, lines 140-141: finally: self.release(identifier).
Release(x) ==
    /\ wpc[x] = "release"
    /\ \E success \in BOOLEAN :
         released' = [released EXCEPT ![x] = ReleasedAfter(released[x], success)]
    /\ relCalls' = [relCalls EXCEPT ![x] = relCalls[x] + 1]
    /\ wpc' = [wpc EXCEPT ![x] = "dead"]
    /\ UNCHANGED <<inputVars, mainVars, sigVars, reqVars, suiteVars,
                   wpolls, ssStarted, ssOutcome, failed>>

\* --------------------------------------------- main(): the testrun result
\* What a main suite result can be: the dictionary main() reads from "results".
ResultDescriptions == {"d1", "d2"}
SuiteResults == [verdict : Verdicts, conclusion : Conclusions, description : ResultDescriptions]
ResultLists == UNION {[1..n -> SuiteResults] : n \in 0..MaxResults}

\* main(), lines 40-46: the loop over the results; `result` is <<>> for None.  It
\* stops at a FAILED result and goes on after an INCONCLUSIVE one.
RECURSIVE AggregateLoop(_, _, _)
AggregateLoop(rs, i, result) ==
    IF i > Len(rs) THEN result
    ELSE IF rs[i].verdict = "FAILED" THEN <<rs[i]>>
    ELSE IF rs[i].verdict = "INCONCLUSIVE" THEN AggregateLoop(rs, i + 1, <<rs[i]>>)
    ELSE AggregateLoop(rs, i + 1, result)

NoResults == [verdict |-> "Inconclusive", conclusion |-> "Inconclusive",
              description |-> "Got no results from ESR"]

\* main(), lines 47-55.
Aggregate(rs) ==
    LET result == AggregateLoop(rs, 1, <<>>)
    IN IF Len(rs) = 0 THEN NoResults
       ELSE IF result = <<>> THEN rs[1]
       ELSE result[1]

\* main(), lines 58-59: first letter upper case, the rest lower case.
Capitalize(w) ==
    CASE w \in {"PASSED", "Passed"} -> "Passed"
      [] w \in {"FAILED", "Failed"} -> "Failed"
      [] w \in {"INCONCLUSIVE", "Inconclusive"} -> "Inconclusive"
      [] w \in {"SUCCESSFUL", "Successful"} -> "Successful"
      [] OTHER -> w

\* main(), lines 39-61: what is dumped to /dev/termination-log.
TerminationLog(rs) ==
    LET result == Aggregate(rs)
    IN [verdict |-> Capitalize(result.verdict),
        conclusion |-> Capitalize(result.conclusion),
        description |-> result.description,
        written |-> TRUE]

\* main(), line 64: the result written when esr.run() raised.
FailureLog == [verdict |-> "Inconclusive", conclusion |-> "Failed",
               description |-> "traceback", written |-> TRUE]

\* main() from its try statement on, for every result list: esr.run() returns or raises.
MainInit ==
    /\ entry = "main"
    /\ operatorMode = FALSE
    /\ nSuites = 1
    /\ envBudget = 0
    /\ tests = [s \in Suites |-> 1]
    /\ results \in ResultLists
    /\ responses = <<>>
    /\ timer = NoTimer
    /\ old = NoOld
    /\ execCall = NoCall /\ listener = NoListener /\ idState = NoIds
    /\ mpc = "main_try" /\ mexc = NoExc
    /\ rpc = "none"
    /\ IdleState

\* main(), line 38.
MainRun ==
    /\ mpc = "main_try"
    /\ \E ok \in BOOLEAN :
         IF ok THEN mpc' = "main_aggregate" /\ mexc' = mexc
               ELSE mpc' = "main_except" /\ mexc' = Exc("Exception", "run")
    /\ UNCHANGED <<inputVars, actTriggered, actStarted, actFinished, actCanceled,
                   cancelReason, returned, fullReleases, fullReleaseErrors, statusAtCheck, termlog,
                   sigVars, reqVars, suiteVars, subVars>>

\* main(), lines 39-62.
MainWriteResult ==
    /\ mpc = "main_aggregate"
    /\ termlog' = TerminationLog(results)
    /\ mpc' = "main_done"
    /\ UNCHANGED <<inputVars, mexc, actTriggered, actStarted, actFinished, actCanceled,
                   cancelReason, returned, fullReleases, fullReleaseErrors, statusAtCheck,
                   sigVars, reqVars, suiteVars, subVars>>

\* main(), lines 63-67.
MainWriteFailure ==
    /\ mpc = "main_except"
    /\ termlog' = FailureLog
    /\ mpc' = "main_raised"
    /\ UNCHANGED <<inputVars, mexc, actTriggered, actStarted, actFinished, actCanceled,
                   cancelReason, returned, fullReleases, fullReleaseErrors, statusAtCheck,
                   sigVars, reqVars, suiteVars, subVars>>

MainNext ==
    \/ MainRun
    \/ MainWriteResult
    \/ MainWriteFailure

SpecMain == MainInit /\ [][MainNext]_vars

\* ------------------------- older snapshot: ESR._get_environment_status
\* One answer of the environment provider to the status request: its "status" and
\* its "result" (absent or empty, without an error, with an error).
OldStatuses == {"PENDING", "SUCCESS", "FAILURE"}
OldResults == {"none", "ok", "error"}
OldResponses == [status : OldStatuses, result : OldResults]
OldTimeoutMessage == "Unknown Error: Did not receive an environment"

\* ESRParameters.set_status of the older snapshot.
OldSetStatus(status, error) == [status |-> status, error |-> error]

\* _get_environment_status, lines 110-111: the status of every response is stored.
OldStatusOf(response) ==
    OldSetStatus(response.status,
                 IF response.result = "error" THEN "boom" ELSE NoStatusError)

\* The status thread of the older snapshot, for every sequence of answers the
\* provider gives before WAIT_FOR_ENVIRONMENT_TIMEOUT.
OldInit ==
    /\ entry = "old"
    /\ operatorMode = FALSE
    /\ nSuites = 1
    /\ envBudget = 0
    /\ tests = [s \in Suites |-> 1]
    /\ results = <<>>
    /\ responses \in UNION {[1..n -> OldResponses] : n \in 0..MaxRequesterPolls}
    /\ timer = NoTimer
    /\ old = NoOld
    /\ execCall = NoCall /\ listener = NoListener /\ idState = NoIds
    /\ mpc = "old_pool_wait" /\ mexc = NoExc
    /\ rpc = "old_run"
    /\ IdleState

\* _get_environment_status, lines 108-115, one response: set_status, and leave
\* both loops when the response carries a result.
GetEnvironmentStatus ==
    /\ rpc = "old_run"
    /\ rpolls < Len(responses)
    /\ LET response == responses[rpolls + 1]
       IN /\ envStatus' = OldStatusOf(response)
          /\ rpc' = IF response.result # "none" THEN "done" ELSE "old_run"
    /\ rpolls' = rpolls + 1
    /\ UNCHANGED <<inputVars, mainVars, sigVars, suiteVars, subVars>>

\* _get_environment_status, lines 116-121: the else clause of the outer loop.
GetEnvironmentStatusTimeout ==
    /\ rpc = "old_run"
    /\ rpolls >= Len(responses)
    /\ envStatus' = OldSetStatus("FAILURE", OldTimeoutMessage)
    /\ rpc' = "done"
    /\ rpolls' = rpolls
    /\ UNCHANGED <<inputVars, mainVars, sigVars, suiteVars, subVars>>

OldNext ==
    \/ GetEnvironmentStatus
    \/ GetEnvironmentStatusTimeout

SpecOld == OldInit /\ [][OldNext]_vars

\* ------------------------------------- the poll loops against the clock
\* time.sleep(10) in SubSuite._start, time.sleep(5) in sub_suite_environments.
SubSuiteSleep == 10
DiscoverySleep == 5
LoopSleep(loop) == IF loop = "sub_suite" THEN SubSuiteSleep ELSE DiscoverySleep

\* One loop, started at time 0 with `timeout = time.time() + T` seconds, for the
\* worker's result wait (T = default_test_result_timeout) and for environment
\* discovery (T = WAIT_FOR_ENVIRONMENT_TIMEOUT).
TimeInit ==
    /\ entry = "clock"
    /\ operatorMode = FALSE
    /\ nSuites = 1
    /\ envBudget = 0
    /\ tests = [s \in Suites |-> 1]
    /\ results = <<>>
    /\ responses = <<>>
    /\ \E loop \in {"sub_suite", "discovery"}, T \in 0..MaxTimeout :
         timer = [loop |-> loop, pc |-> "while", now |-> 0, deadline |-> T, lastQuery |-> -1]
    /\ old = NoOld
    /\ execCall = NoCall /\ listener = NoListener /\ idState = NoIds
    /\ mpc = "pool_wait" /\ mexc = NoExc
    /\ rpc = "none"
    /\ IdleState

\* `while time.time() < timeout`.
TimeWhile ==
    /\ timer.pc = "while"
    /\ timer' = [timer EXCEPT !.pc = IF timer.now < timer.deadline THEN "sleep" ELSE "done"]
    /\ UNCHANGED <<entry, operatorMode, nSuites, envBudget, tests, results, responses, old,
                   execCall, listener, idState,
                   mainVars, sigVars, reqVars, suiteVars, subVars>>

\* time.sleep(n): at least n seconds pass.
TimeSleep ==
    /\ timer.pc = "sleep"
    /\ \E late \in 0..MaxDelay :
         timer' = [timer EXCEPT !.pc = "query", !.now = timer.now + LoopSleep(timer.loop) + late]
    /\ UNCHANGED <<entry, operatorMode, nSuites, envBudget, tests, results, responses, old,
                   execCall, listener, idState,
                   mainVars, sigVars, reqVars, suiteVars, subVars>>

\* The queries of one tick (TestSuiteStarted / TestSuiteFinished, resp.
\* ActivityTriggered / ActivityFinished / EnvironmentDefined) are issued now and
\* take some time; the loop is left when they bring what it waits for.
TimeQuery ==
    /\ timer.pc = "query"
    /\ \E took \in 0..MaxDelay, leave \in BOOLEAN :
         timer' = [timer EXCEPT !.pc = IF leave THEN "done" ELSE "while",
                                !.lastQuery = timer.now,
                                !.now = timer.now + took]
    /\ UNCHANGED <<entry, operatorMode, nSuites, envBudget, tests, results, responses, old,
                   execCall, listener, idState,
                   mainVars, sigVars, reqVars, suiteVars, subVars>>

TimeNext ==
    \/ TimeWhile
    \/ TimeSleep
    \/ TimeQuery

SpecTime == TimeInit /\ [][TimeNext]_vars

\* ------------------------- older snapshot: ESR.run and SuiteRunner
\* `SuiteRunner(self.params, self.etos)` in run_suites against
\* `SuiteRunner.__init__(self, params, etos, context)`, and
\* `ResultHandler(self.etos, test_suite_started)` in start_suite against
\* `ResultHandler.__init__(self, etos)`: arguments passed and parameters taken.
SuiteRunnerCtorArgs == 2
SuiteRunnerInitParams == 3
ResultHandlerCtorArgs == 2
ResultHandlerInitParams == 1

OldSend(event) == Append(old.events, event)

\* The events of a run without the announcements, in publishing order.
RECURSIVE WithoutAnnouncements(_)
WithoutAnnouncements(events) ==
    IF events = <<>> THEN <<>>
    ELSE IF Head(events) = "AnnouncementPublished"
         THEN WithoutAnnouncements(Tail(events))
         ELSE <<Head(events)>> \o WithoutAnnouncements(Tail(events))

\* Either ESR().run() as the scenario tests and main() call it, or a caller that
\* constructs SuiteRunner(params, etos, context) and calls start_suites_and_wait.
OldRunInit ==
    /\ entry \in {"old_run", "old_runner"}
    /\ operatorMode = FALSE
    /\ nSuites = 1
    /\ envBudget = 0
    /\ tests = [s \in Suites |-> 1]
    /\ results = <<>>
    /\ responses = <<>>
    /\ timer = NoTimer
    /\ \E ok \in BOOLEAN, n \in 1..MaxSuites, c \in 1..MaxCpus, t \in BOOLEAN :
         old = [pc |-> IF entry = "old_run" THEN "launch" ELSE "start_suites_and_wait",
                events |-> <<>>, inputOk |-> ok, suites |-> n, cpus |-> c, task |-> t,
                tpc |-> [s \in 1..n |-> "queued"], exc |-> "", sig |-> 0, released |-> 0]
    /\ execCall = NoCall /\ listener = NoListener /\ idState = NoIds
    /\ mpc = "old_pool_wait" /\ mexc = NoExc
    /\ rpc = "none"
    /\ IdleState

OldStep == UNCHANGED <<entry, operatorMode, nSuites, envBudget, tests, results, responses,
                       timer, execCall, listener, idState, mainVars, sigVars, reqVars, suiteVars, subVars>>

\* run, lines 203-209: the launch announcement.
OldAnnounceLaunching ==
    /\ old.pc = "launch"
    /\ old' = [old EXCEPT !.pc = "trigger", !.events = OldSend("AnnouncementPublished")]
    /\ OldStep

\* run, lines 211-223.
OldSendActivityTriggered ==
    /\ old.pc = "trigger"
    /\ old' = [old EXCEPT !.pc = "verify", !.events = OldSend("ActivityTriggered")]
    /\ OldStep

\* run, line 225, and verify_input, lines 193-197.
OldVerifyInput ==
    /\ old.pc = "verify"
    /\ old' = IF old.inputOk
              THEN [old EXCEPT !.pc = "run_suites"]
              ELSE [old EXCEPT !.pc = "start_failed", !.exc = "AssertionError"]
    /\ OldStep

\* run, lines 227-234: announce and re-raise; the activity is not canceled.
OldStartFailed ==
    /\ old.pc = "start_failed"
    /\ old' = [old EXCEPT !.pc = "raised", !.events = OldSend("AnnouncementPublished")]
    /\ OldStep

\* run_suites, lines 159-164.
OldSendEnvironmentDefined ==
    /\ old.pc = "run_suites"
    /\ old' = [old EXCEPT !.pc = "construct", !.events = OldSend("EnvironmentDefined")]
    /\ OldStep

\* run_suites, line 165, before the try statement of line 173: the constructor
\* call raises TypeError unless its arguments fit the parameters.
OldConstructRunner ==
    /\ old.pc = "construct"
    /\ old' = IF SuiteRunnerCtorArgs = SuiteRunnerInitParams
              THEN [old EXCEPT !.pc = "reserve_workers"]
              ELSE [old EXCEPT !.pc = "canceling", !.exc = "TypeError"]
    /\ OldStep

\* run, lines 241-250.
OldSendActivityCanceled ==
    /\ old.pc = "canceling"
    /\ old' = [old EXCEPT !.pc = "raised",
                          !.events = OldSend("ActivityCanceled") \o <<"AnnouncementPublished">>]
    /\ OldStep

\* graceful_exit, lines 252-255, registered in ESR.__init__ (line 51): the
\* exception is raised in the main thread, inside the try statement it is in.
OldGracefulExit ==
    /\ entry = "old_run"
    /\ old.sig < MaxSignals
    /\ old.pc \in {"launch", "trigger", "verify", "run_suites", "construct"}
    /\ old' = [old EXCEPT !.sig = old.sig + 1, !.exc = TerminateMessage,
                          !.pc = IF old.pc \in {"launch", "trigger", "verify"}
                                 THEN "start_failed" ELSE "canceling"]
    /\ OldStep

\* start_suites_and_wait, lines 245-248: the environment thread is started and
\* the suites are handed to the pool.
OldStartSuitesAndWait ==
    /\ old.pc = "start_suites_and_wait"
    /\ old' = [old EXCEPT !.pc = "pool"]
    /\ OldStep

OldRunning == {s \in 1..old.suites : old.tpc[s] = "started"}

\* start_suite, lines 199-213, in a pool thread: ThreadPool() has os.cpu_count()
\* threads, and map hands the suites out in their order.
OldStartSuite(s) ==
    /\ old.pc = "pool"
    /\ old.tpc[s] = "queued"
    /\ \A r \in 1..(s - 1) : old.tpc[r] # "queued"
    /\ Cardinality(OldRunning) < old.cpus
    /\ old' = [old EXCEPT !.tpc[s] = "started", !.events = OldSend("TestSuiteStarted")]
    /\ OldStep

\* start_suite, line 219, before the try statement of line 220: the constructor
\* call raises TypeError unless its arguments fit the parameters, and the finally
\* clause that sends TestSuiteFinished (lines 230-239) is not entered.
OldResultHandler(s) ==
    /\ old.pc = "pool"
    /\ old.tpc[s] = "started"
    /\ old' = [old EXCEPT !.tpc[s] = IF ResultHandlerCtorArgs = ResultHandlerInitParams
                                     THEN "start_sub_suites" ELSE "raised"]
    /\ OldStep

\* pool.map returns when every task has ended and re-raises a task's exception.
OldPoolMap ==
    /\ old.pc = "pool"
    /\ \A s \in 1..old.suites : old.tpc[s] \in {"raised", "done"}
    /\ old' = [old EXCEPT !.pc = "finally",
                          !.exc = IF \E s \in 1..old.suites : old.tpc[s] = "raised"
                                  THEN "TypeError" ELSE ""]
    /\ OldStep

\* start_suites_and_wait, lines 251-255.
OldReleaseEnvironment ==
    /\ old.pc = "finally"
    /\ old' = [old EXCEPT !.pc = IF old.exc = "" THEN "returned" ELSE "raised",
                          !.released = IF old.task THEN old.released + 1 ELSE old.released]
    /\ OldStep

OldRunNext ==
    \/ OldAnnounceLaunching
    \/ OldSendActivityTriggered
    \/ OldVerifyInput
    \/ OldStartFailed
    \/ OldSendEnvironmentDefined
    \/ OldConstructRunner
    \/ OldSendActivityCanceled
    \/ OldGracefulExit
    \/ OldStartSuitesAndWait
    \/ \E s \in Suites : s <= old.suites /\ OldStartSuite(s)
    \/ \E s \in Suites : s <= old.suites /\ OldResultHandler(s)
    \/ OldPoolMap
    \/ OldReleaseEnvironment

SpecOldRun == OldRunInit /\ [][OldRunNext]_vars

\* ------------------------------------------------- Executor.run_tests
\* What the test runner endpoint sends back: a status code and a body that is a
\* JSON object (with or without an "error" member), another JSON value, or text
\* that is not JSON; or no response at all (connection failure).
HttpStatuses == {200, 201, 400, 404, 500, 503}
ErrorTexts == {"nope", "busy"}
HttpBodies ==
    [kind : {"object"}, val : ErrorTexts \cup {"no error member"}]
    \cup [kind : {"array", "string", "null"}, val : {""}]
    \cup [kind : {"text"}, val : {"Bad Gateway", ""}]
HttpAnswers ==
    [kind : {"response"}, status : HttpStatuses, body : HttpBodies]
    \cup [kind : {"connection_error"}, message : ErrorTexts]
UnknownStartError == "Unknown error when starting tests"

\* response.raise_for_status(): HTTPError for a 4xx or 5xx status.
RaisesForStatus(status) == status >= 400 /\ status < 600

\* TestStartException.__init__, lines 36-39: message.get("error", default); a
\* message that is not a dict has no `get`.
TestStartException(kind, val) ==
    IF kind = "object"
      THEN [raised |-> "TestStartException",
            error |-> IF val = "no error member" THEN UnknownStartError ELSE val]
      ELSE [raised |-> "AttributeError", error |-> ""]

\* run_tests, lines 108-121: the request and the mapping of its failures.
\* http_error.response.json() raises JSONDecodeError for a body that is not JSON.
ExecutorOutcome(answer) ==
    IF answer.kind = "connection_error"
      THEN TestStartException("object", answer.message)
    ELSE IF ~RaisesForStatus(answer.status)
      THEN [raised |-> "None", error |-> ""]
    ELSE IF answer.body.kind = "text"
      THEN TestStartException("object", answer.body.val)
    ELSE TestStartException(answer.body.kind, answer.body.val)

ExecutorInit ==
    /\ entry = "executor"
    /\ operatorMode = FALSE
    /\ nSuites = 1
    /\ envBudget = 0
    /\ tests = [s \in Suites |-> 1]
    /\ results = <<>>
    /\ responses = <<>>
    /\ timer = NoTimer
    /\ old = NoOld
    /\ listener = NoListener /\ idState = NoIds
    /\ \E auth \in {"none", "basic", "digest"}, answer \in HttpAnswers :
         execCall = [pc |-> "attributes", auth |-> auth, answer |-> answer,
                     requested |-> FALSE, raised |-> "None", error |-> ""]
    /\ mpc = "pool_wait" /\ mexc = NoExc
    /\ rpc = "none"
    /\ IdleState

ExecutorStep == UNCHANGED <<entry, operatorMode, nSuites, envBudget, tests, results, responses,
                            timer, old, listener, idState, mainVars, sigVars, reqVars, suiteVars, subVars>>

\* run_tests, lines 92-107: request["auth"] becomes an HTTPBasicAuth or
\* HTTPDigestAuth object, and json.dumps(request) for the span attribute raises
\* TypeError for a request that holds such an object.
ExecutorSetAttributes ==
    /\ execCall.pc = "attributes"
    /\ execCall' = IF execCall.auth = "none"
                     THEN [execCall EXCEPT !.pc = "request"]
                     ELSE [execCall EXCEPT !.pc = "done", !.raised = "TypeError"]
    /\ ExecutorStep

\* run_tests, lines 108-121.
ExecutorRequest ==
    /\ execCall.pc = "request"
    /\ LET out == ExecutorOutcome(execCall.answer)
       IN execCall' = [execCall EXCEPT !.pc = "done", !.requested = TRUE,
                                       !.raised = out.raised, !.error = out.error]
    /\ ExecutorStep

ExecutorNext ==
    \/ ExecutorSetAttributes
    \/ ExecutorRequest

SpecExecutor == ExecutorInit /\ [][ExecutorNext]_vars

\* ------------------------------------------------- run_suites: main suite ids
\* The ids that uuid4 or the environment requests of the cluster can supply, and
\* the longest list of environment requests considered.
IdPool == {"id_a", "id_b", "id_c"}
MaxRequests == 3
IdLists(n) == UNION {[1..k -> IdPool] : k \in 0..n}
Distinct(seq) == \A i, j \in DOMAIN seq : seq[i] = seq[j] => i = j

\* ESRParameters.main_suite_ids: a fresh uuid4 per test suite, or in operator
\* mode the spec.id of every environment request the cluster lists, in its order.
MainSuiteIds(requests) ==
    IF operatorMode
      THEN {requests}
      ELSE {ids \in [1..nSuites -> IdPool] : Distinct(ids)}

\* TestSuite.__init__ / _send_test_suite_started, lines 233 and 356: the event id
\* of the TestSuiteStarted of the i-th suite.
TestSuiteStartedIdOfFirst(suites, i) == suites[1]
TestSuiteStartedId(suites, i) == suites[i]

IdsInit ==
    /\ entry = "run_suites"
    /\ operatorMode \in BOOLEAN
    /\ nSuites \in Suites
    /\ envBudget = 0
    /\ tests = [s \in Suites |-> 1]
    /\ results = <<>>
    /\ responses = <<>>
    /\ timer = NoTimer
    /\ old = NoOld
    /\ execCall = NoCall /\ listener = NoListener
    /\ \E requests \in IF operatorMode THEN IdLists(MaxRequests) ELSE {<<>>} :
         idState = [NoIds EXCEPT !.pc = "main_suite_ids", !.requests = requests,
                                 !.eventId = [i \in 1..nSuites |-> "none"],
                                 !.links = [i \in 1..nSuites |-> "none"]]
    /\ mpc = "pool_wait" /\ mexc = NoExc
    /\ rpc = "none"
    /\ IdleState

IdsStep == UNCHANGED <<entry, operatorMode, nSuites, envBudget, tests, results, responses,
                       timer, old, execCall, listener, mainVars, sigVars, reqVars, suiteVars,
                       subVars>>

\* run_suites, line 215.
IdsMainSuiteIds ==
    /\ idState.pc = "main_suite_ids"
    /\ \E ids \in MainSuiteIds(idState.requests) :
         idState' = [idState EXCEPT !.pc = "pair", !.ids = ids]
    /\ IdsStep

\* run_suites, lines 216-217: ids[i] for every test suite; IndexError for a list
\* of ids shorter than the list of test suites.
IdsPairSuites ==
    /\ idState.pc = "pair"
    /\ idState' = IF Len(idState.ids) < nSuites
                    THEN [idState EXCEPT !.pc = "raised", !.raised = "IndexError"]
                    ELSE [idState EXCEPT !.pc = "thread",
                                         !.suites = [i \in 1..nSuites |-> idState.ids[i]]]
    /\ IdsStep

\* run_suites, lines 223-230: the ids of the pairs are the requester's argument.
IdsStartRequester ==
    /\ idState.pc = "thread"
    /\ idState' = [idState EXCEPT !.pc = "pool", !.requester = idState.suites]
    /\ IdsStep

\* start_suites_and_wait, lines 81-84, and TestSuite._start: the suite of the
\* i-th pair sends its TestSuiteStarted.
IdsSendTestSuiteStarted(i) ==
    /\ idState.pc = "pool"
    /\ idState.eventId[i] = "none"
    /\ idState' = [idState EXCEPT !.eventId[i] = TestSuiteStartedId(idState.suites, i)]
    /\ IdsStep

\* sub_suite_environments, line 267, SubSuite(..., self.test_suite_started_id),
\* line 397, and SubSuite.started, line 76: the id the queries link to.
IdsQuery(i) ==
    /\ idState.pc = "pool"
    /\ idState.eventId[i] # "none"
    /\ idState.links[i] = "none"
    /\ idState' = [idState EXCEPT !.links[i] = idState.eventId[i]]
    /\ IdsStep

\* run_suites, line 236.
IdsReturn ==
    /\ idState.pc = "pool"
    /\ \A i \in 1..nSuites : idState.links[i] # "none"
    /\ idState' = [idState EXCEPT !.pc = "done", !.returned = idState.suites]
    /\ IdsStep

IdsNext ==
    \/ IdsMainSuiteIds
    \/ IdsPairSuites
    \/ IdsStartRequester
    \/ \E i \in 1..nSuites : IdsSendTestSuiteStarted(i)
    \/ \E i \in 1..nSuites : IdsQuery(i)
    \/ IdsReturn

SpecIds == IdsInit /\ [][IdsNext]_vars

\* ------------------------------------------------------------ log listener
\* Lines in the event file when the listener is constructed, messages received
\* from the bus, and the bounds of an HTTP read.
MaxExisting == 2
MaxMessages == 3
MaxLine == 2
\* A message of the bus after json.loads: a log record (an object without an
\* "event" member), an event with its data, an event without a "data" member, an
\* event with a further member, and a JSON value that is not an object.
MessageShapes == {"record", "event", "event_without_data", "event_with_more", "not_object"}

\* Listener.__init__, line 49.
InitialIdFromZero(file) == Len(file)
InitialId(file) == Len(file) + 1

\* new_event, lines 70-72: the keyword arguments __write is called with, or the
\* exception of event.get on a value that is not an object.
NewEventCall(shape) ==
    IF shape = "not_object" THEN [raised |-> "AttributeError", event |-> ""]
    ELSE IF shape = "record" THEN [raised |-> "None", event |-> "message"]
    ELSE IF shape = "event" THEN [raised |-> "None", event |-> "report"]
    ELSE [raised |-> "TypeError", event |-> ""]

\* v1logs, lines 58-69: the loop over the numbered lines of the event file.
RECURSIVE V1LogsFrom(_, _, _, _, _)
V1LogsFrom(file, linenbr, start, end, read) ==
    IF linenbr >= Len(file) THEN <<>>
    ELSE LET reading == read \/ linenbr + 1 = start
             line == IF reading THEN <<file[linenbr + 1]>> ELSE <<>>
         IN IF end # -1 /\ linenbr + 1 = end
              THEN line
              ELSE line \o V1LogsFrom(file, linenbr + 1, start, end, reading)
V1Logs(file, start, end) == V1LogsFrom(file, 0, start, end, FALSE)

\* __main__.py, lines 38-41 and 74: the files exist, the event file holds the
\* lines an earlier listener wrote to it, and the listener is constructed.
LogListenerInit ==
    /\ entry = "log_listener"
    /\ operatorMode = FALSE
    /\ nSuites = 1
    /\ envBudget = 0
    /\ tests = [s \in Suites |-> 1]
    /\ results = <<>>
    /\ responses = <<>>
    /\ timer = NoTimer
    /\ old = NoOld
    /\ execCall = NoCall /\ idState = NoIds
    /\ \E k \in 0..MaxExisting :
         listener = [NoListener EXCEPT !.pc = "construct", !.existing = k,
                                       !.file = [i \in 1..k |-> [id |-> i, event |-> "message",
                                                                 msg |-> 0]]]
    /\ mpc = "pool_wait" /\ mexc = NoExc
    /\ rpc = "none"
    /\ IdleState

ListenerStep == UNCHANGED <<entry, operatorMode, nSuites, envBudget, tests, results, responses,
                            timer, old, execCall, idState, mainVars, sigVars, reqVars, suiteVars,
                            subVars>>

\* Listener.__init__, lines 47-49, and listener.start().
ListenerConstruct ==
    /\ listener.pc = "construct"
    /\ listener' = [listener EXCEPT !.pc = "running", !.id = InitialId(listener.file)]
    /\ ListenerStep

\* LogSubscriber.call and Listener.new_event: a message arrives; a callback that
\* raises makes call() answer (ack = False, requeue = True) and nothing is written.
NewEvent(shape) ==
    /\ listener.pc = "running" /\ listener.writer = "idle"
    /\ Len(listener.received) < MaxMessages
    /\ LET call == NewEventCall(shape)
       IN listener' = IF call.raised = "None"
                        THEN [listener EXCEPT !.received = Append(@, shape),
                                              !.writer = "lock", !.event = call.event]
                        ELSE [listener EXCEPT !.received = Append(@, shape),
                                              !.nacked = @ + 1]
    /\ ListenerStep

\* __write, line 76: with self.lock.
WriteLock ==
    /\ listener.writer = "lock" /\ listener.lock = "free"
    /\ listener' = [listener EXCEPT !.writer = "write", !.lock = "writer"]
    /\ ListenerStep

\* __write, lines 77-85: the line with the current id, and the log line of a message.
WriteEvent ==
    /\ listener.writer = "write"
    /\ listener' = [listener EXCEPT
                      !.writer = "increment",
                      !.file = Append(@, [id |-> listener.id, event |-> listener.event,
                                          msg |-> Len(listener.received)]),
                      !.log = IF listener.event = "message" THEN @ + 1 ELSE @]
    /\ ListenerStep

\* __write, line 86, and the end of the with statement.
WriteIncrement ==
    /\ listener.writer = "increment"
    /\ listener' = [listener EXCEPT !.writer = "idle", !.id = @ + 1, !.lock = "free"]
    /\ ListenerStep

\* v1logs, line 59: with LOCK.
ReadLock(start, end) ==
    /\ listener.pc = "running" /\ listener.reader = "idle" /\ listener.lock = "free"
    /\ listener' = [listener EXCEPT !.reader = "read", !.lock = "reader",
                                    !.start = start, !.end = end]
    /\ ListenerStep

\* v1logs, lines 60-69.
ReadLines ==
    /\ listener.reader = "read"
    /\ listener' = [listener EXCEPT !.reader = "done", !.lock = "free",
                                    !.read = V1Logs(listener.file, listener.start, listener.end)]
    /\ ListenerStep

LogListenerNext ==
    \/ ListenerConstruct
    \/ \E shape \in MessageShapes : NewEvent(shape)
    \/ WriteLock
    \/ WriteEvent
    \/ WriteIncrement
    \/ \E start \in 0..MaxLine, end \in -1..MaxLine : ReadLock(start, end)
    \/ ReadLines

SpecLogListener == LogListenerInit /\ [][LogListenerNext]_vars

\* ------------------------------------------------------------------ Spec
Next ==
    \/ MainConstruct
    \/ ESRInit
    \/ RunStartup
    \/ RunVerifyInput
    \/ RunSuitesSetup
    \/ SpawnRequester
    \/ SendActivityStarted
    \/ StartSuitesAndWait
    \/ PoolMapDone
    \/ FinallyRelease
    \/ ExceptRelease
    \/ SendActivityFinished
    \/ ReturnIds
    \/ SendActivityCanceled
    \/ GracefulExit
    \/ RequestEnvironment
    \/ EnvironmentRequestStatus
    \/ EnvironmentRequestTimeout
    \/ \E s \in ActiveSuites : SuiteStart(s)
    \/ \E s \in ActiveSuites : Discover(s)
    \/ \E s \in ActiveSuites : DiscoverTimeout(s)
    \/ \E s \in ActiveSuites : Yield(s)
    \/ \E s \in ActiveSuites : Join(s)
    \/ \E s \in ActiveSuites : Finish(s)
    \/ \E s \in ActiveSuites : ReleaseAll(s)
    \/ \E x \in Subs : RunTests(x)
    \/ \E x \in Subs : PollResult(x)
    \/ \E x \in Subs : PollTimeout(x)
    \/ \E x \in Subs : Release(x)

Spec == Init /\ [][Next]_vars

\* ------------------- permutation scenario: several main suites, direct mode
\* The TERCC of test_permutations.py: MaxSuites main suites with tests, ESR() and
\* esr.run() called directly, no IDENTIFIER in the environment and no SIGTERM.
\* TestSuiteStarted is sent, every sub suite definition is downloaded, every test
\* runner is started and every check-in succeeds; when the provider, the bus and
\* the test runners answer, and what, is left open.
PermutationInit ==
    /\ entry = "direct"
    /\ operatorMode = FALSE
    /\ nSuites = MaxSuites
    /\ envBudget = MaxPermutationEnvEvents
    /\ tests = [s \in Suites |-> 1]
    /\ results = <<>>
    /\ responses = <<>>
    /\ timer = NoTimer
    /\ old = NoOld
    /\ execCall = NoCall /\ listener = NoListener /\ idState = NoIds
    /\ mpc = "boot" /\ mexc = NoExc
    /\ rpc = "none"
    /\ IdleState

PermutationNext ==
    \/ ESRInit
    \/ RunStartup
    \/ RunVerifyInput
    \/ RunSuitesSetup
    \/ SpawnRequester
    \/ SendActivityStarted
    \/ StartSuitesAndWait
    \/ PoolMapDone
    \/ FinallyRelease
    \/ ExceptRelease
    \/ SendActivityFinished
    \/ ReturnIds
    \/ SendActivityCanceled
    \/ RequestEnvironment
    \/ \E s \in ActiveSuites : SuiteStart(s) /\ tss'[s] = 1
    \/ \E s \in ActiveSuites : Discover(s)
    \/ \E s \in ActiveSuites : DiscoverTimeout(s)
    \/ \E s \in ActiveSuites : Yield(s) /\ noDef' = noDef
    \/ \E s \in ActiveSuites : Join(s)
    \/ \E s \in ActiveSuites : Finish(s)
    \/ \E s \in ActiveSuites : ReleaseAll(s)
    \/ \E x \in Subs : RunTests(x) /\ ~failed'[x]
    \/ \E x \in Subs : PollResult(x) /\ wpc'[x] = "release"
    \/ \E x \in Subs : Release(x) /\ released'[x]

SpecPermutation == PermutationInit /\ [][PermutationNext]_vars

TypeOK ==
    /\ mpc \in {"boot", "crashed", "ctor_raised", "constructed", "verify", "rs_setup",
                "main_try", "main_aggregate", "main_except", "main_done", "main_raised",
                "old_pool_wait",
                "rs_spawn", "rs_started", "enter_pool", "pool_wait", "finally_release",
                "except_release", "act_finished", "return_ids", "cancel", "returned",
                "raised"}
    /\ fullReleases \in 0..2
    /\ \A x \in Subs : relCalls[x] \in 0..2

\* ---------------------------------------------------------------- claims
\* C1: on every exit path of the testrun driver that entered
\* start_suites_and_wait, the full environment release has been invoked exactly
\* once when run() is left.  Stated for the exit paths no termination signal
\* interrupts, which are among those the claim names.
C1_FullReleaseExactlyOnce ==
    ( /\ mpc \in {"returned", "raised"}
      /\ sigCount = 0
      /\ \E s \in ActiveSuites : spc[s] # "idle" )
        => fullReleases = 1

\* C2: when the task of a main suite has ended, exactly one single-environment
\* release call has been made for every EnvironmentDefined event its discovery
\* loop yielded.
C2_OneReleasePerEnvironment ==
    \A s \in ActiveSuites :
        spc[s] = "done" => \A e \in seen[s] : relCalls[<<s, e>>] = 1

C4_ExactlyOneActivityEnd ==
    (mpc \in {"returned", "raised"} /\ sigCount = 0 /\ actTriggered = 1)
        => actFinished + actCanceled = 1

\* C5: no step takes the environment status from FAILURE to SUCCESS.
C5_NeverFailureToSuccess ==
    [][envStatus.status = "FAILURE" => envStatus'.status # "SUCCESS"]_vars

\* The (verdict, conclusion) of the precedence table, with the condition of its
\* second row.
C6_Precedence(s, secondRow) ==
    LET subs == SeqRange(subSeq[s])
    IN IF empty[s] THEN <<"INCONCLUSIVE", "FAILED">>
       ELSE IF secondRow THEN <<"INCONCLUSIVE", "FAILED">>
       ELSE IF \E e \in subs : failed[<<s, e>>] THEN <<"INCONCLUSIVE", "FAILED">>
       ELSE IF \E e \in subs : ssOutcome[<<s, e>>] = "None" THEN <<"INCONCLUSIVE", "FAILED">>
       ELSE IF \E e \in subs : ssOutcome[<<s, e>>] # "PASSED" THEN <<"FAILED", "SUCCESSFUL">>
       ELSE <<"PASSED", "SUCCESSFUL">>

C6_Published(s) == <<tsfOutcome[s].verdict, tsfOutcome[s].conclusion>>

\* C6 as stated: the result a main suite was finished with is the first matching
\* row of the table whose second row is "no sub suite started".
C6_PrecedenceNoSubSuiteStarted ==
    \A s \in ActiveSuites :
        tsf[s] = 1 =>
            C6_Published(s) =
                C6_Precedence(s, \A e \in SeqRange(subSeq[s]) : ~ssStarted[<<s, e>>])

\* C6 amended: the result a main suite was finished with is the first matching
\* row of the table whose second row is "discovery did not end normally"
\* (TestSuite.started is false), whether or not sub suites were started.
C6_PrecedenceDiscoveryNotCompleted ==
    \A s \in ActiveSuites :
        tsf[s] = 1 => C6_Published(s) = C6_Precedence(s, ~started[s])

\* C6 witness: a suite was finished after discovery failed although its sub suite
\* had started and passed.
C6_Witness ==
    \E s \in ActiveSuites :
        /\ tsf[s] = 1 /\ ~empty[s] /\ ~started[s]
        /\ subSeq[s] # <<>>
        /\ \A e \in SeqRange(subSeq[s]) : ssStarted[<<s, e>>] /\ ssOutcome[<<s, e>>] = "PASSED"

\* The first result of rs with verdict v, 0 when there is none.
C7_First(rs, v) ==
    LET at == {i \in DOMAIN rs : rs[i].verdict = v}
    IN IF at = {} THEN 0 ELSE Min(at)

C7_Pick(rs) ==
    IF C7_First(rs, "FAILED") # 0 THEN rs[C7_First(rs, "FAILED")]
    ELSE IF C7_First(rs, "INCONCLUSIVE") # 0 THEN rs[C7_First(rs, "INCONCLUSIVE")]
    ELSE rs[1]

C8_TerminationLogWritten ==
    (entry = "main" /\ mpc \in {"crashed", "main_done", "main_raised"}) => termlog.written

\* C9: when run() is left without a signal, every main suite having completed
\* without raising and the status read by start_suites_and_wait being SUCCESS,
\* ActivityFinished is published, ActivityCanceled is not, and the ids are returned.
C9_SuccessIsFinished ==
    ( /\ mpc \in {"returned", "raised"}
      /\ sigCount = 0
      /\ \A s \in ActiveSuites : spc[s] = "done" /\ sexc[s] = NoExc
      /\ firstExc = NoExc
      /\ statusAtCheck.status = "SUCCESS" )
        => actFinished = 1 /\ actCanceled = 0 /\ returned = SuiteIds

\* C10: after a run with one main suite and one sub suite that reported PASSED,
\* the termination-log main() writes from the result list is Passed, Successful,
\* "All tests passed.".
C10_PassedReachesTerminationLog ==
    ( /\ mpc = "returned"
      /\ nSuites = 1
      /\ Len(subSeq[1]) = 1
      /\ ssOutcome[<<1, subSeq[1][1]>>] = "PASSED"
      /\ tsfOutcome[1] = Outcome("PASSED", "SUCCESSFUL", "All tests passed.") )
        => TerminationLog(results) = Outcome("Passed", "Successful", "All tests passed.")

\* C11: in the permutation scenario (direct mode, no termination signal), when
\* discovery completed for every main suite, every sub suite reported
\* TestSuiteFinished with verdict PASSED and the requester reported no error, run()
\* returns exactly one id per main suite, and exactly one TestSuiteFinished is
\* published per main suite, with outcome PASSED / SUCCESSFUL / "All tests passed.".
C11_AllSubSuitesPassed ==
    /\ mpc \in {"returned", "raised"}
    /\ statusAtCheck.error = NoStatusError
    /\ \A s \in ActiveSuites :
         /\ spc[s] = "done" /\ started[s] /\ subSeq[s] # <<>>
         /\ \A e \in SeqRange(subSeq[s]) : ssOutcome[<<s, e>>] = "PASSED"

C12_EmptySuiteFinishedInconclusive ==
    \A s \in ActiveSuites :
        tests[s] = 0 =>
            /\ spc[s] \notin {"discover", "yield", "join"}
            /\ dpolls[s] = 0 /\ ~atCache[s] /\ seen[s] = {} /\ subSeq[s] = <<>>
            /\ \A e \in Envs : wpc[<<s, e>>] = "none"
            /\ (spc[s] = "done" /\ sexc[s] = NoExc) =>
                 /\ tss[s] = 1 /\ tsf[s] = 1
                 /\ tsfOutcome[s].verdict = "INCONCLUSIVE"
                 /\ tsfOutcome[s].conclusion = "FAILED"

C12_Witness ==
    \E s \in ActiveSuites :
        /\ tests[s] = 0 /\ spc[s] = "done" /\ sexc[s] = NoExc
        /\ tsf[s] = 1 /\ empty[s] /\ mpc = "returned"

\* C13: when the requester has recorded FAILURE with error E and no
\* EnvironmentDefined event has appeared, a tick of the discovery loop that finds no
\* environment aborts with EnvironmentProviderException(E); and a run one of whose
\* suites aborted that way publishes ActivityCanceled with reason E, invokes the
\* full release and leaves conclusion Failed, verdict Inconclusive in the
\* termination-log.
C13_TickWithoutEnvironment(s) ==
    /\ spc[s] = "discover" /\ dpolls[s] < MaxDiscoveryPolls
    /\ seen[s] = {} /\ envStatus.status = "FAILURE"
    /\ (dpolls'[s] # dpolls[s] \/ spc'[s] # spc[s])
    /\ pending'[s] = {}

C13_Aborted(s) ==
    /\ spc[s] = "done" /\ seen[s] = {}
    /\ envStatus.status = "FAILURE"
    /\ sexc[s] = Exc("EnvironmentProviderException", envStatus.error)

C13_RunOutcome ==
    (mpc \in {"returned", "raised"} /\ sigCount = 0 /\ \E s \in ActiveSuites : C13_Aborted(s)) =>
        /\ actCanceled = 1 /\ cancelReason = envStatus.error
        /\ fullReleases >= 1
        /\ termlog.written /\ termlog.conclusion = "Failed" /\ termlog.verdict = "Inconclusive"

C13_ProviderFailureBeforeEnvironment ==
    [][/\ \A s \in ActiveSuites :
            C13_TickWithoutEnvironment(s) =>
                /\ spc'[s] = "join"
                /\ sexc'[s] = Exc("EnvironmentProviderException", envStatus.error)
       /\ C13_RunOutcome']_vars

\* C14: when discovery completed and the executor call of n >= 1 sub suites of a
\* main suite failed, the main suite is finished with INCONCLUSIVE / FAILED /
\* "<n> sub suites failed to start", and for every failed sub suite, which never
\* polled for results, release was called once.
C14_FailedSubSuites(s) == {e \in SeqRange(subSeq[s]) : failed[<<s, e>>]}

C14_FailedToStart ==
    \A s \in ActiveSuites :
        (spc[s] = "done" /\ started[s] /\ C14_FailedSubSuites(s) # {}) =>
            /\ tsf[s] = 1
            /\ tsfOutcome[s] =
                 Outcome("INCONCLUSIVE", "FAILED",
                         ToString(Cardinality(C14_FailedSubSuites(s))) \o " sub suites failed to start")
            /\ \A e \in C14_FailedSubSuites(s) :
                 /\ relCalls[<<s, e>>] = 1
                 /\ ~ssStarted[<<s, e>>] /\ ssOutcome[<<s, e>>] = "None"

C14_Witness ==
    \E s \in ActiveSuites :
        /\ spc[s] = "done" /\ started[s]
        /\ Cardinality(C14_FailedSubSuites(s)) = 2
        /\ \A e \in C14_FailedSubSuites(s) : released[<<s, e>>]

\* C15: once the termination signal handler has run, no poll loop (sub suite
\* result wait, environment discovery, requester watch) completes a tick and goes
\* on to poll again.
C15_LoopsExitAfterSignal ==
    [][sigCount >= 1 =>
         /\ \A x \in Subs : wpolls'[x] <= wpolls[x]
         /\ \A s \in ActiveSuites : dpolls'[s] <= dpolls[s]
         /\ rpolls' <= rpolls]_vars

\* C16: when the termination signal is delivered while run() waits for the suites
\* in the pool, the run ends on the failure path: the full release has run,
\* ActivityCanceled was published with the handler's message, and the
\* termination-log holds conclusion Failed and verdict Inconclusive.
C16_SignalWhileSuitesRun ==
    (mpc \in {"returned", "raised"} /\ sigAt = "pool_wait") =>
        /\ mpc = "raised" /\ mexc = Exc("RuntimeError", TerminateMessage)
        /\ fullReleases >= 1
        /\ actCanceled = 1 /\ actFinished = 0 /\ cancelReason = TerminateMessage
        /\ termlog.written /\ termlog.conclusion = "Failed" /\ termlog.verdict = "Inconclusive"

\* The part of C16 that run() itself is responsible for.
C16_RunPart ==
    (mpc \in {"returned", "raised"} /\ sigAt = "pool_wait") =>
        /\ mpc = "raised" /\ mexc = Exc("RuntimeError", TerminateMessage)
        /\ fullReleases = 1
        /\ actCanceled = 1 /\ actFinished = 0 /\ cancelReason = TerminateMessage

\* C17: with integer time, no poll loop issues a query later than its start time
\* plus its timeout (default_test_result_timeout for a sub suite worker,
\* WAIT_FOR_ENVIRONMENT_TIMEOUT for environment discovery).
C17_NoQueryPastDeadline == timer.lastQuery <= timer.deadline

\* C18: whenever ActivityStarted has been published, ActivityTriggered has been
\* published and, in direct mode, the requester thread has made its call to the
\* environment provider.
C18_StartedAfterRequestIssued ==
    actStarted >= 1 =>
        /\ actTriggered >= 1
        /\ ~operatorMode => rpc = "done"

\* C19: when verify_input has failed, no ActivityTriggered event has been
\* published, and no environment has been requested or released.
C19_ConfigErrorBeforeActivity ==
    (mpc = "raised" /\ mexc.kind = "AssertionError") =>
        /\ actTriggered = 0
        /\ rpc = "none" /\ envStatus = InitialStatus
        /\ fullReleases = 0
        /\ \A x \in Subs : relCalls[x] = 0

C21_Expected(n) ==
    <<"ActivityTriggered", "EnvironmentDefined", "ActivityStarted">>
    \o [i \in 1..n |-> "TestSuiteStarted"]
    \o [i \in 1..n |-> "TestSuiteFinished"]
    \o <<"ActivityFinished">>
C21_EventOrder ==
    (entry = "old_run" /\ old.inputOk /\ old.sig = 0 /\ old.pc \in {"returned", "raised"})
    => /\ old.pc = "returned"
       /\ WithoutAnnouncements(old.events) = C21_Expected(old.suites)

\* C22: two main suites whose sub suites have, one by one, the same failed and
\* finished flags and the same TestSuiteFinished outcomes publish the same
\* (verdict, conclusion, description), whatever else happened in the run.
C22_SameSubSuites(s, t) ==
    /\ subSeq[s] = subSeq[t]
    /\ \A e \in SeqRange(subSeq[s]) :
         /\ failed[<<s, e>>] = failed[<<t, e>>]
         /\ ssOutcome[<<s, e>>] = ssOutcome[<<t, e>>]
C22_SameSuites(s, t) ==
    /\ empty[s] = empty[t] /\ started[s] = started[t]
    /\ C22_SameSubSuites(s, t)
C22_SameResults(s, t) ==
    /\ tsfOutcome[s].verdict = tsfOutcome[t].verdict
    /\ tsfOutcome[s].conclusion = tsfOutcome[t].conclusion
    /\ (empty[s] \/ started[s]) => tsfOutcome[s].description = tsfOutcome[t].description
C23_Constructed(s) == {<<s, e>> : e \in SeqRange(subSeq[s])}
C24_DescriptionOfFailingSubSuite ==
    \A s \in ActiveSuites :
        (tsf[s] = 1 /\ tsfOutcome[s].verdict = "FAILED")
        => \E e \in SeqRange(subSeq[s]) :
              /\ ssOutcome[<<s, e>>] # "PASSED"
              /\ tsfOutcome[s].description = SubDescription(e)

\* C25: for each SubSuite the executor call precedes the first observation of
\* `started`, which precedes the observation of `finished`, which precedes every
\* release call; no release is made before the executor call has returned or
\* raised, and nothing is observed after a release.
C25_ExecutorOver(x) == wpc[x] \in {"poll", "release", "dead"}
C25_SubSuiteOrder ==
    [][\A x \in Subs :
         /\ (ssStarted'[x] /\ ~ssStarted[x]) => (wpc[x] = "poll" /\ ~failed[x])
         /\ (ssOutcome'[x] # ssOutcome[x]) => (wpc[x] = "poll" /\ ssStarted'[x])
         /\ (relCalls'[x] > relCalls[x]) => (C25_ExecutorOver(x) /\ wpc'[x] = "dead")
         /\ (relCalls[x] > 0) => (ssStarted'[x] = ssStarted[x] /\ ssOutcome'[x] = ssOutcome[x])]_vars
C25_Witness ==
    \E x \in Subs :
        /\ ssStarted[x] /\ ssOutcome[x] = "PASSED"
        /\ relCalls[x] = 1 /\ released[x] /\ wpc[x] = "dead"

\* C26: the TestSuiteStarted of a main suite is published before any of its
\* workers starts, and its TestSuiteFinished only when every worker that was
\* started has terminated, also when discovery raised after workers were started.
C26_Workers(s) == {x \in Subs : x[1] = s /\ wpc[x] # "none"}
C26_StartedBeforeWorkersFinishedAfter ==
    \A s \in ActiveSuites :
        /\ C26_Workers(s) # {} => tss[s] = 1
        /\ tsf[s] >= 1 => \A x \in C26_Workers(s) : wpc[x] = "dead"
C26_Witness ==
    \E s \in ActiveSuites :
        /\ tsf[s] = 1 /\ ~started[s] /\ sexc[s] # NoExc
        /\ C26_Workers(s) # {}

\* C27: across the polls of a main suite's discovery loop each EnvironmentDefined
\* event is yielded at most once, so at most one SubSuite is created for it, also
\* when every poll returns the event again.
C27_YieldedAtMostOnce ==
    \A s \in ActiveSuites :
        /\ pending[s] \cap seen[s] = {}
        /\ \A i, j \in DOMAIN subSeq[s] : subSeq[s][i] = subSeq[s][j] => i = j
        /\ SeqRange(subSeq[s]) \subseteq seen[s]
C27_Witness ==
    \E s \in ActiveSuites :
        /\ spc[s] = "yield" /\ dpolls[s] = 2
        /\ seen[s] = {1} /\ pending[s] = {2} /\ subSeq[s] = <<1>>

\* C28: a discovery poll made with the provider's ActivityTriggered known ends
\* the loop with EnvironmentProviderException(outcome description) when the
\* provider's ActivityFinished exists with a conclusion other than SUCCESSFUL, and
\* ends it successfully when ActivityFinished is SUCCESSFUL and at least one
\* environment has been yielded; when the deadline has passed with no environment
\* yielded, the loop ends with TimeoutError.
C28_PollEnds(s) ==
    /\ spc[s] \in {"discover", "yield"} /\ spc'[s] \in {"discover", "join"}
    /\ dpolls[s] < MaxDiscoveryPolls \/ spc[s] = "yield"
    /\ atCache'[s] /\ noDef'[s] = noDef[s]
C28_DiscoveryOutcome ==
    [][\A s \in ActiveSuites :
         /\ C28_PollEnds(s) =>
              /\ afCache'[s] \notin {"None", "SUCCESSFUL"} =>
                   /\ spc'[s] = "join" /\ ~started'[s]
                   /\ sexc'[s] = Exc("EnvironmentProviderException", ProviderActivityDescription)
              /\ (afCache'[s] = "SUCCESSFUL" /\ seen'[s] # {}) =>
                   (spc'[s] = "join" /\ started'[s] /\ sexc'[s] = NoExc)
         /\ (spc[s] = "discover" /\ dpolls[s] >= MaxDiscoveryPolls /\ seen[s] = {}
               /\ spc'[s] # spc[s]) =>
              (spc'[s] = "join" /\ ~started'[s] /\ sexc'[s] = Exc("TimeoutError", "Timed out"))]_vars
C28_Witness ==
    \E s \in ActiveSuites :
        /\ spc[s] = "join" /\ seen[s] # {} /\ afCache[s] = "FAILED"
        /\ sexc[s] = Exc("EnvironmentProviderException", ProviderActivityDescription)

\* C29: when the discovery loop or the sub-suite start-up of a main suite raised
\* (EnvironmentProviderException, TimeoutError, download failure), the main suite
\* is finished with verdict FAILED and conclusion FAILED.
C29_StartRaised(s) ==
    /\ tsf[s] = 1
    /\ sexc[s].kind \in {"EnvironmentProviderException", "TimeoutError", "HTTPError"}
C29_FinishedFailedFailed ==
    \A s \in ActiveSuites :
        C29_StartRaised(s) =>
            (tsfOutcome[s].verdict = "FAILED" /\ tsfOutcome[s].conclusion = "FAILED")

\* C29, amended: when the discovery loop or the sub-suite start-up of a main suite
\* raised, the main suite is finished with verdict INCONCLUSIVE and conclusion
\* FAILED, and the error is re-raised from the task of the suite.
C29_FinishedInconclusiveFailed ==
    \A s \in ActiveSuites :
        C29_StartRaised(s) =>
            /\ tsfOutcome[s].verdict = "INCONCLUSIVE" /\ tsfOutcome[s].conclusion = "FAILED"
            /\ spc[s] = "done" => firstExc # NoExc
C29_Witness ==
    \E s \in ActiveSuites :
        /\ C29_StartRaised(s) /\ spc[s] = "done"
        /\ sexc[s].kind = "HTTPError"
        /\ \E e \in SeqRange(subSeq[s]) : ssOutcome[<<s, e>>] = "PASSED"

\* C30: in watch mode, when the requester leaves its loop because
\* WAIT_FOR_ENVIRONMENT_TIMEOUT has passed, without a 'Failed' request or all
\* requests 'Done', the status it leaves behind is FAILURE.
C30_TimeoutSetsFailure ==
    [][(operatorMode /\ rpc = "run" /\ rpolls >= MaxRequesterPolls /\ rpc' = "done")
       => envStatus'.status = "FAILURE"]_vars

\* C31: when the executor call of a SubSuite raised TestStartException, its
\* worker has set failed and has itself made the release call for the SubSuite
\* by the time it ends.
C31_WorkerReleasesFailedSubSuite ==
    \A x \in Subs : (failed[x] /\ wpc[x] = "dead") => relCalls[x] >= 1

\* C31, amended: when the executor call of a SubSuite raised TestStartException,
\* its worker sets failed and ends at once without a release call; the one release
\* call for the SubSuite is made by release_all of its main suite.
C31_FailedSubSuiteReleasedByReleaseAll ==
    [][\A x \in Subs :
         /\ (failed'[x] /\ ~failed[x]) =>
              (wpc[x] = "exec" /\ wpc'[x] = "dead" /\ relCalls[x] = 0 /\ relCalls'[x] = 0)
         /\ (failed[x] /\ relCalls'[x] # relCalls[x]) =>
              (spc[x[1]] = "release_all" /\ relCalls'[x] = 1)
         /\ (failed'[x] /\ spc'[x[1]] = "done") => relCalls'[x] = 1]_vars
C31_Witness ==
    \E x \in Subs :
        /\ failed[x] /\ wpc[x] = "dead" /\ spc[x[1]] = "done"
        /\ relCalls[x] = 1 /\ ~released[x]

\* C32: every failure of the test runner call is raised as TestStartException:
\* an HTTP error status with a JSON body carries that JSON, an HTTP error status
\* with a body that is not JSON carries the body text as error, a connection
\* failure carries its message as error; a success response raises nothing.
C32_HttpError == execCall.answer.kind = "response" /\ RaisesForStatus(execCall.answer.status)
C32_FailuresAreTestStartErrors ==
    (execCall.pc = "done" /\ execCall.requested) =>
        /\ execCall.answer.kind = "connection_error" =>
             (execCall.raised = "TestStartException" /\ execCall.error = execCall.answer.message)
        /\ (C32_HttpError /\ execCall.answer.body.kind = "text") =>
             (execCall.raised = "TestStartException" /\ execCall.error = execCall.answer.body.val)
        /\ (C32_HttpError /\ execCall.answer.body.kind # "text") =>
             execCall.raised = "TestStartException"
        /\ (execCall.answer.kind = "response" /\ ~C32_HttpError) => execCall.raised = "None"

\* C33: a finished sub suite is a started one, and a cached TestSuiteStarted or
\* TestSuiteFinished of a sub suite and a cached ActivityTriggered or
\* ActivityFinished of a test suite, once found, are kept as they are by every
\* later poll.
C33_FinishedImpliesStartedCachesKept ==
    [][/\ \A x \in Subs :
            /\ ssOutcome'[x] # "None" => ssStarted'[x]
            /\ ssStarted[x] => ssStarted'[x]
            /\ ssOutcome[x] # "None" => ssOutcome'[x] = ssOutcome[x]
       /\ \A s \in Suites :
            /\ atCache[s] => atCache'[s]
            /\ afCache[s] # "None" => afCache'[s] = afCache[s]]_vars
C33_Witness ==
    \E x \in Subs :
        /\ ssStarted[x] /\ ssOutcome[x] # "None" /\ wpc[x] = "dead"
        /\ atCache[x[1]] /\ afCache[x[1]] = "SUCCESSFUL" /\ spc[x[1]] = "done"

\* C34: the main suite ids are the correlation keys: the id of the i-th main
\* suite is the one passed to the environment requester, the event id of its
\* TestSuiteStarted, the link target of its queries and the i-th element that
\* run() returns; ids of different main suites are distinct and there is exactly
\* one id per main suite.
C34_Started(i) == idState.eventId[i] # "none"
C34_SameIdAtEveryUse ==
    /\ \A i \in 1..nSuites :
         /\ C34_Started(i) =>
              (idState.eventId[i] = idState.ids[i] /\ idState.requester[i] = idState.ids[i])
         /\ idState.links[i] # "none" => idState.links[i] = idState.ids[i]
    /\ idState.pc = "done" =>
         (Len(idState.returned) = nSuites
          /\ \A i \in 1..nSuites : idState.returned[i] = idState.ids[i])
C34_OneDistinctIdPerSuite ==
    /\ C34_SameIdAtEveryUse
    /\ idState.pc # "main_suite_ids" => (Len(idState.ids) = nSuites /\ Distinct(idState.ids))
\* C34 as the code has it: the uses of an id agree; without operator mode the
\* ids are distinct, one per main suite; in operator mode they are the ids of
\* the environment requests in the listed order, the run raises IndexError
\* before any main suite starts when these are fewer than the main suites, and
\* surplus ids belong to no main suite.
C34_IdsAsGiven ==
    /\ C34_SameIdAtEveryUse
    /\ (~operatorMode /\ idState.pc # "main_suite_ids") =>
         (Len(idState.ids) = nSuites /\ Distinct(idState.ids) /\ idState.raised = "None")
    /\ (operatorMode /\ idState.pc # "main_suite_ids") =>
         /\ idState.ids = idState.requests
         /\ idState.raised = "IndexError" <=>
              (idState.pc = "raised" /\ Len(idState.requests) < nSuites)
         /\ idState.pc = "raised" => \A i \in 1..nSuites : ~C34_Started(i)
         /\ idState.pc \notin {"pair", "raised"} =>
              idState.suites = SubSeq(idState.requests, 1, nSuites)
C34_Witness ==
    /\ idState.pc = "done" /\ nSuites = 2 /\ operatorMode
    /\ Len(idState.requests) = 3
    /\ idState.returned[1] # idState.returned[2]
    /\ idState.links[2] = idState.returned[2]

\* C35: every poll loop ends once its deadline has passed, so every main suite
\* emits TestSuiteFinished and the run reaches the full environment release. The
\* threads of the pool and the requester are daemon threads: what they have not
\* done when the main thread has left run() is never done, so at that point every
\* main suite handed to the pool has sent its TestSuiteFinished and the full
\* environment release was called.
C35_HandedToPool == \A s \in ActiveSuites : spc[s] # "idle"
C35_FinishedAndReleasedAtExit ==
    (MainTerminated /\ C35_HandedToPool) =>
        ((\A s \in ActiveSuites : tsf[s] >= 1) /\ fullReleases >= 1)

\* C36: in the log listener, line N of the event file is the N-th message
\* received and carries id N: ids start at the number of lines already in the
\* file plus one, grow by one per written event, and no two events share an id.
C36_Written == (listener.existing + 1)..Len(listener.file)
C36_IdIsLineNumber ==
    /\ \A n \in 1..Len(listener.file) : listener.file[n].id = n
    /\ listener.pc = "running" =>
         listener.id = Len(listener.file) + (IF listener.writer = "increment" THEN 0 ELSE 1)
    /\ \A n \in 1..Len(listener.read) :
         listener.read[n] = listener.file[listener.start + n - 1]
C36_Accepted(i) == NewEventCall(listener.received[i]).raised = "None"
C37_TimedOut(s) == sexc[s].kind = "TimeoutError"
C37_TimeoutFinishesInconclusive ==
    [][\A s \in Suites :
         /\ (spc[s] = "discover" /\ dpolls[s] >= MaxDiscoveryPolls /\ spc'[s] # spc[s]) =>
              (C37_TimedOut(s)' /\ spc'[s] = "join" /\ ~started'[s])
         /\ (C37_TimedOut(s) /\ spc[s] = "join" /\ spc'[s] # "join") =>
              \A i \in DOMAIN subSeq[s] : wpc[<<s, subSeq[s][i]>>] = "dead"
         /\ (C37_TimedOut(s) /\ tsf'[s] > tsf[s]) =>
              tsfOutcome'[s] = Outcome("INCONCLUSIVE", "FAILED",
                                       "No sub suites started at all for " \o ToString(s) \o ".")]_vars
C37_Witness ==
    \E x \in Subs :
        /\ C37_TimedOut(x[1]) /\ tsf[x[1]] >= 1
        /\ ssStarted[x] /\ ssOutcome[x] = "PASSED" /\ wpc[x] = "dead"
        /\ tsfOutcome[x[1]].verdict = "INCONCLUSIVE"

\* C38: the full environment release is called only after SuiteRunner.run has
\* ended for every main suite: each one that sent TestSuiteStarted has sent
\* TestSuiteFinished and has run release_all.
C38_ReleaseAfterEveryRun ==
    fullReleases >= 1 =>
        \A s \in ActiveSuites : spc[s] = "done" /\ (tss[s] >= 1 => tsf[s] >= 1)

\* C39: when the requester has set the environment status to FAILURE at any
\* point before run() ends, run() has not published ActivityFinished; it ends with
\* EnvironmentProviderException and has published ActivityCanceled.  Runs in which
\* a termination signal was delivered are left aside.
C39_RunEnds == ~MainTerminated /\ MainTerminated'
C39_FailureCancelsRun ==
    [][(C39_RunEnds /\ envStatus.status = "FAILURE" /\ sigCount = 0) =>
          (actFinished' = 0 /\ actCanceled' = 1 /\ mexc'.kind = "EnvironmentProviderException")]_vars

\* C40: no two release calls for one sub suite are in flight together:
\* release_all of a main suite runs only when every worker thread of that main
\* suite has ended, so a sub suite is released by its worker or by release_all,
\* never by both at a time.
C40_WorkersOf(s) == {x \in Subs : x[1] = s /\ wpc[x] # "none"}
C40_ReleaseAllAfterWorkers ==
    [][\A s \in Suites :
         /\ spc'[s] \in {"release_all", "done"} => \A x \in C40_WorkersOf(s)' : wpc'[x] = "dead"
         /\ \A x \in Subs :
              (x[1] = s /\ (relCalls'[x] # relCalls[x] \/ released'[x] # released[x])) =>
                  /\ relCalls'[x] = relCalls[x] + 1
                  /\ (wpc[x] = "release" /\ spc[s] \notin {"release_all", "done"})
                     \/ (wpc[x] = "dead" /\ spc[s] = "release_all")]_vars
C40_Witness ==
    \E x \in Subs :
        /\ relCalls[x] = 2 /\ wpc[x] = "dead" /\ spc[x[1]] = "done"
        /\ released[x] /\ ~failed[x]
====
